---- MODULE Spec2Model ----
(***************************************************************************)
(* Verification model of the reef controller backend.                      *)
(*                                                                         *)
(* Part A: the power budget allocator (services/power_allocator.py) as it  *)
(* is driven by the 1 Hz sample job (services/scheduler.py) and by the     *)
(* stage controls (services/stage_manager.py, routers/arrays.py).          *)
(*                                                                         *)
(* Part B: the hardware control: the preset manager                        *)
(* (services/preset_manager.py), the device registry                       *)
(* (services/hw_devices.py), the patterns (services/hw_patterns.py), the   *)
(* 20 Hz real-time loop (hw_scheduler/realtime_loop.py) with its commands  *)
(* (routers/hardware.py), and the six-channel wavemaker manager            *)
(* (services/wavemaker_manager.py, routers/wavemakers.py).                 *)
(*                                                                         *)
(* Numbers.  Watts are integers.  The code divides by 100 (percentages)    *)
(* and by a number of LEDs; every wattage that is the result of such a     *)
(* division is kept multiplied by WScale, so that the comparisons of the   *)
(* code are made on exact integers.  The duty of a stage is kept in        *)
(* percent, current_intensity_pct in hundredths of a percent.              *)
(***************************************************************************)
EXTENDS Integers, Sequences, FiniteSets, TLC

VARIABLES
    \* ---- LED entities of the stages (models.LED, stages/led_stage.py)
    is_on,                  \* key -> BOOLEAN
    priority,               \* key -> Int
    intensity_limit_pct,    \* key -> 0..100
    current_intensity_pct,  \* key -> hundredths of a percent
    \* ---- stages (stages/base.py)
    stage_duty,             \* array -> percent
    stage_enabled,          \* array -> BOOLEAN
    \* ---- PowerAllocator state
    last_shed_time,         \* key -> time or NoTime
    surplus_start_time,     \* key -> time or NoTime (NoTime: key absent)
    \* ---- wall clock, seconds
    now,
    \* ---- sample_job: position and locals
    pc,                     \* "idle", "shed", "restore", "publish"
    array_objs,             \* array -> [enabled, duty, power_w]
    pv_w, battery_w_available,
    leds_to_shed, leds_to_restore,
    tick_events,            \* events appended to EventsService by this tick
    \* ---- observation history (not a field of the program): the time of
    \* the first restore pass of the current unbroken run of passes that
    \* saw surplus above the hysteresis threshold, NoTime if the latest
    \* pass saw none
    surplus_since,
    \* ---- sample_job's local snap, app.state.latest and the latest response
    \* to GET /snapshot: sequences of telemetry rows [stage_id, ts]
    snap,
    latest,
    snapshot_response,
    \* ---- the preset table of the store: id -> [name, description,
    \*      cycle_duration_sec, is_built_in, flow_curves], the domain being
    \*      the ids of the rows there are
    presets,
    \* ---- PresetManager
    active_preset_id,       \* id of a preset or NoPreset
    cycle_start_time,
    \* ---- DeviceRegistry: id -> [registered, min_intensity, max_intensity,
    \*                             current_duty]
    wavemakers,
    leds,
    \* ---- module state of the real-time loop
    manual_devices,         \* set of device ids
    led_follow_map,         \* LED id -> wavemaker id or NoWavemaker
    \* ---- PatternRegistry: id -> [present, mode, period_s, on_ratio,
    \*                              min_intensity, max_intensity, start_time]
    patterns,
    \* ---- device configurations kept by the store: set of device ids
    device_configs,
    \* ---- status of the latest HTTP response, NoResponse before the first
    http_status,
    \* ---- WavemakerManager: 0..5 -> [mode, target_power_pct, current_duty,
    \*                                pulse_on_time, pulse_duty_ratio]
    channels,
    \* ---- duty last written to the PWM controller, per channel
    pca_duty,
    \* ---- did the latest run of wavemaker_control_loop end with an
    \* exception
    job_error,
    \* ---- the call of Channel.set_mode that PUT /wavemakers/{channel_id}
    \* has in progress: NoCall or [channel_id, mode, target_pct, step,
    \* before], step being the field the call writes next and before (an
    \* observation, not a local of the call) the mode and target the channel
    \* had when the call began
    set_mode_call,
    \* ---- one call of PresetManager._interpolate_power: its position,
    \* its arguments and its result
    interp_pc,              \* "call" or "done"
    curve_arg,              \* sequence of keyframes
    time_pos_arg,           \* a fraction, percent of the cycle
    power_result,           \* a fraction, NoResult before the return
    \* ---- the periodic triggers of the two schedulers
    instances,              \* trigger -> number of its callbacks in progress
    hw_scheduler_running,   \* hw_scheduler.running
    stop_returned,          \* stop_hw_scheduler has been called and returned
    last_firing,            \* [trigger, outcome] of the latest firing
    \* ---- two pattern generators (hw_patterns.Pattern) evaluated on their
    \* own, the time of their clock and the latest value of each
    generators,             \* id -> pattern
    pattern_t,
    pattern_result,         \* id -> [t, v], NoValue before the first
    \* ---- DeviceRegistry with the configurations and hardware handles of
    \* its devices: [wavemakers, leds], each id -> [config, hw, current_duty]
    \* for the ids it has, hw being the number of a handle
    registry,
    \* ---- the PWM handles (PigpioPWM) created so far, by number:
    \* [pin, freq, duty, running, released]
    hw_handles,
    \* ---- the calls made on the handles, in their order: [op, hw]
    hw_log,
    \* ---- the device configurations of the store: id -> row
    device_rows,
    \* ---- the scheduled tasks of the store: id -> row
    scheduled_tasks,
    \* ---- the body of the last GET /api/settings/export
    export_data,
    \* ---- WavemakerManager.sample_all_power: the reading of time.time(), in
    \* quarters of a second, last_telemetry_time and the history of every
    \* channel (a sequence of points, the oldest first)
    telemetry_time,
    last_telemetry_time,
    history,
    \* ---- observation history (not a field of the program): what has been
    \* stopped by an emergency stop with no control command given since,
    \* "channels" (WavemakerManager), "devices" (DeviceRegistry)
    stopped,
    \* ---- AutomationService: the feed mode, the reading of datetime.now()
    \* in seconds, the answer to the last feed mode request and the times
    \* of the last executions by task id
    feed_mode_active,
    feed_mode_start_time,   \* a time or NoTime
    preset_before_feed,     \* an id or NoPreset
    feed_result,
    auto_now,
    last_executed_tasks,
    \* ---- automation_task_check: whether it has fired, and its position
    \* ("idle", or "tasks" once it has seen that feed mode is not active)
    automation_started,
    task_check_pc,
    \* ---- observation history (not a field of the program): the preset
    \* that was active when feed mode was last started, and the times at
    \* which each task was executed
    feed_started_with,
    task_executions

\* the variables of the allocator and of sample_job
allocCore == <<is_on, priority, intensity_limit_pct, current_intensity_pct,
               stage_duty, stage_enabled, last_shed_time, surplus_start_time,
               now, pc, array_objs, pv_w, battery_w_available,
               leds_to_shed, leds_to_restore, tick_events, surplus_since>>
\* the same but the clock
allocCoreState == <<is_on, priority, intensity_limit_pct, current_intensity_pct,
                stage_duty, stage_enabled, last_shed_time, surplus_start_time,
                pc, array_objs, pv_w, battery_w_available,
                leds_to_shed, leds_to_restore, tick_events, surplus_since>>

presetVars == <<active_preset_id, cycle_start_time>>
rtVars == <<wavemakers, leds, manual_devices, led_follow_map, patterns,
            device_configs, http_status>>
wmVars == <<channels, pca_duty, job_error, set_mode_call>>
interpVars == <<interp_pc, curve_arg, time_pos_arg, power_result>>
\* what neither the allocator nor the hardware control touches
triggerVars == <<instances, hw_scheduler_running, stop_returned, last_firing>>
patternVars == <<generators, pattern_t, pattern_result>>
\* the variables of the specifications of single objects
deviceVars == <<registry, hw_handles, hw_log, device_rows>>
importVars == <<scheduled_tasks, export_data>>
telemetryVars == <<telemetry_time, last_telemetry_time, history>>
stopVars == <<stopped>>
automationVars == <<feed_mode_active, feed_mode_start_time, preset_before_feed,
                    feed_result, auto_now, last_executed_tasks,
                    automation_started, task_check_pc, feed_started_with,
                    task_executions>>
standaloneVars == <<patternVars, deviceVars, importVars, telemetryVars, stopVars,
                    automationVars>>
\* what is not the hardware control, the observation of the stops aside
keptVars == <<interpVars, triggerVars, presets, patternVars, deviceVars,
              importVars, telemetryVars, automationVars>>
otherVars == <<interpVars, triggerVars, presets, standaloneVars>>

snapVars == <<snap, latest, snapshot_response>>

\* what the hardware control leaves unchanged
allocVars == <<allocCore, snapVars, otherVars>>
allocState == <<allocCoreState, snapVars, otherVars>>
\* the same for a step that is a stop or a command
allocKept == <<allocCore, snapVars, keptVars>>
allocStateKept == <<allocCoreState, snapVars, keptVars>>
\* what the allocator leaves unchanged
hwVars == <<presetVars, rtVars, wmVars, otherVars>>

vars == <<allocVars, hwVars>>

----------------------------------------------------------------------------
(* Bounds and inputs of the allocator model *)

\* number of firings of sample_job that are explored
MaxTicks == 3
MaxShedTicks == 4
\* seconds between two firings of sample_job (telemetry.sample_interval_ms)
interval_s == 5

\* config "stages.arrays": two arrays; the first has two LEDs
ArrayIds == <<"A1", "A2">>
ArraySet == {"A1", "A2"}
AllKeys == << <<"A1", "L1">>, <<"A1", "L2">>, <<"A2", "L1">> >>
KeySet == {AllKeys[i] : i \in 1..Len(AllKeys)}
KeysOf(a) == {k \in KeySet : k[1] = a}

NoTime == -1

\* telemetry readings (vout_v * iout_a) of an array, watts
ReadingW == {0, 120}
\* generation (max_pv_w * diurnal_factor), watts
PvW == {100}
\* priorities and duties that control commands may set
PriorityInputs == {1, 5}
DutyInputs == {100}
\* LEDs addressed by settings requests, arrays addressed by duty commands
\* and by enable commands
SettingsKeys == KeysOf("A1")
DutyArrays == {"A1"}
EnableArrays == {"A2"}

\* PowerAllocator.__init__ defaults
restore_hysteresis_pct == 10
restore_delay_s == 10
\* LEDStage defaults: max_current_a * nominal_voltage_v = 3.0 * 36.0
max_current_a == 3
nominal_voltage_v == 36
\* scheduler: max_discharge_w default
max_discharge_w == 150

\* common denominator of the divisions: 100 * 100 * lcm(1, 2, 3)
LedLcm == 2 * 3
WScale == 100 * 100 * LedLcm

----------------------------------------------------------------------------
(* Helpers *)

Reverse(s) == [i \in 1..Len(s) |-> s[Len(s) + 1 - i]]

SeqToSet(s) == {s[i] : i \in 1..Len(s)}

RECURSIVE SumSeq(_)
SumSeq(s) == IF s = <<>> THEN 0 ELSE Head(s) + SumSeq(Tail(s))

\* LED.priority order used by list.sort(key=priority, reverse=True):
\* a stable sort, descending
SortsBefore(all, j, i) ==
    \/ priority[all[j]] > priority[all[i]]
    \/ priority[all[j]] = priority[all[i]] /\ j < i

\* PowerAllocator.calculate_load
calculate_load(arrays) ==
    SumSeq([i \in 1..Len(ArrayIds) |->
              IF arrays[ArrayIds[i]].enabled THEN arrays[ArrayIds[i]].power_w ELSE 0])

\* PowerAllocator.get_all_leds_sorted_by_priority
get_all_leds_sorted_by_priority(arrays) ==
    LET all_leds == SelectSeq(AllKeys, LAMBDA k : arrays[k[1]].enabled)
        n == Len(all_leds)
        rank(i) == Cardinality({j \in 1..n : SortsBefore(all_leds, j, i)}) + 1
    IN  [r \in 1..n |-> all_leds[CHOOSE i \in 1..n : rank(i) = r]]

----------------------------------------------------------------------------
(* PowerAllocator.shed_leds *)

\* "if current_load <= available_power: return []"
NoShedNeeded(current_load, available_power) == current_load <= available_power

\* "if power_to_reduce <= 0: break"
ShedDone_never(power_to_reduce) == FALSE
ShedDone(power_to_reduce) == power_to_reduce <= 0

\* the loop "for array_id, led in all_leds" from position i, with the
\* state st it has built so far
RECURSIVE ShedLoop(_, _, _, _)
ShedLoop(arrays, all_leds, i, st) ==
    IF i > Len(all_leds) THEN st
    ELSE LET k == all_leds[i] IN
      IF ~st.is_on[k] THEN ShedLoop(arrays, all_leds, i + 1, st)
      ELSE
        LET array == arrays[k[1]]
            n_on == Cardinality({j \in KeysOf(k[1]) : st.is_on[j]})
            led_power == st.cur[k] * array.power_w * (LedLcm \div n_on)
            st2 == [is_on |-> [st.is_on EXCEPT ![k] = FALSE],
                    cur   |-> [st.cur EXCEPT ![k] = 0],
                    shed  |-> Append(st.shed, k),
                    lst   |-> [st.lst EXCEPT ![k] = now],
                    ev    |-> Append(st.ev,
                                [event_type |-> "shed", key |-> k,
                                 available_w |-> st.available_power,
                                 load_w |-> st.current_load,
                                 surplus_w |-> 0,
                                 led_power_w |-> led_power]),
                    available_power |-> st.available_power,
                    current_load |-> st.current_load,
                    power_to_reduce |-> st.power_to_reduce - led_power]
        IN  IF ShedDone(st2.power_to_reduce) THEN st2
            ELSE ShedLoop(arrays, all_leds, i + 1, st2)

ShedResult(arrays, pv, battery) ==
    LET available_power == pv + battery
        current_load == calculate_load(arrays)
        st0 == [is_on |-> is_on, cur |-> current_intensity_pct,
                shed |-> <<>>, lst |-> last_shed_time, ev |-> <<>>,
                available_power |-> available_power,
                current_load |-> current_load,
                power_to_reduce |-> (current_load - available_power) * WScale]
    IN  IF NoShedNeeded(current_load, available_power) THEN st0
        ELSE ShedLoop(arrays, get_all_leds_sorted_by_priority(arrays), 1, st0)

----------------------------------------------------------------------------
(* PowerAllocator.restore_leds *)

\* "if surplus <= required_surplus"
SurplusTooSmall_never(surplus, required_surplus) == FALSE
SurplusTooSmall(surplus, required_surplus) == surplus <= required_surplus

\* "self.surplus_start_time.clear()"
ClearTimers_keep(sst) == sst
ClearTimers(sst) == [k \in KeySet |-> NoTime]

\* "if (now - self.surplus_start_time[key]).total_seconds() < self.restore_delay_s"
DelayPending_never(t, start) == FALSE
DelayPending(t, start) == t - start < restore_delay_s

\* estimated_power of LED k, multiplied by WScale
EstimatedPower(arrays, k) ==
    intensity_limit_pct[k] * arrays[k[1]].duty
    * (max_current_a * nominal_voltage_v)
    * (LedLcm \div Cardinality(KeysOf(k[1])))

\* "if estimated_power > surplus: continue"
ExceedsSurplus_never(estimated_power, surplus) == FALSE
ExceedsSurplus(estimated_power, surplus) == estimated_power > surplus

RECURSIVE RestoreLoop(_, _, _, _)
RestoreLoop(arrays, all_leds, i, st) ==
    IF i > Len(all_leds) THEN st
    ELSE LET k == all_leds[i] IN
      IF st.is_on[k] THEN RestoreLoop(arrays, all_leds, i + 1, st)
      ELSE IF st.sst[k] = NoTime
        THEN RestoreLoop(arrays, all_leds, i + 1,
                         [st EXCEPT !.sst = [st.sst EXCEPT ![k] = now]])
      ELSE IF DelayPending(now, st.sst[k])
        THEN RestoreLoop(arrays, all_leds, i + 1, st)
      ELSE
        LET array == arrays[k[1]]
            estimated_power == EstimatedPower(arrays, k)
        IN  IF ExceedsSurplus(estimated_power, st.surplus)
            THEN RestoreLoop(arrays, all_leds, i + 1, st)
            ELSE RestoreLoop(arrays, all_leds, i + 1,
                   [is_on |-> [st.is_on EXCEPT ![k] = TRUE],
                    cur   |-> [st.cur EXCEPT ![k] = intensity_limit_pct[k] * array.duty],
                    restored |-> Append(st.restored, k),
                    sst   |-> [st.sst EXCEPT ![k] = NoTime],
                    ev    |-> Append(st.ev,
                                [event_type |-> "restore", key |-> k,
                                 available_w |-> st.available_power,
                                 load_w |-> st.current_load,
                                 surplus_w |-> st.surplus,
                                 led_power_w |-> estimated_power]),
                    available_power |-> st.available_power,
                    current_load |-> st.current_load,
                    surplus |-> st.surplus - estimated_power,
                    low |-> st.low])

RestoreResult(arrays, pv, battery) ==
    LET available_power == pv + battery
        current_load == calculate_load(arrays)
        surplus == (available_power - current_load) * WScale
        required_surplus == available_power * restore_hysteresis_pct * (WScale \div 100)
        st0 == [is_on |-> is_on, cur |-> current_intensity_pct,
                restored |-> <<>>, sst |-> surplus_start_time, ev |-> <<>>,
                available_power |-> available_power,
                current_load |-> current_load,
                surplus |-> surplus,
                low |-> SurplusTooSmall(surplus, required_surplus)]
    IN  IF SurplusTooSmall(surplus, required_surplus)
        THEN [st0 EXCEPT !.sst = ClearTimers(st0.sst)]
        ELSE RestoreLoop(arrays, Reverse(get_all_leds_sorted_by_priority(arrays)), 1, st0)

----------------------------------------------------------------------------
(* Initial state: StageManager.__init__, LEDStage.__init__,                *)
(* PowerAllocator.__init__; the scheduler has not fired yet                *)

NoArrays == [a \in ArraySet |-> [enabled |-> FALSE, duty |-> 0, power_w |-> 0]]

\* the stages in the order of StageManager.stages
StageOrder == <<"A1", "A2">>
\* StageManager.snapshot at time t: one row per stage
Snapshot(t) == [i \in 1..Len(StageOrder) |-> [stage_id |-> StageOrder[i], ts |-> t]]
\* no list of rows
NoSnap == <<>>

\* app.state.latest after snap = self.mgr.snapshot(): the list is bound to
\* the local name only
latest_after_snapshot_now(old, rows) == rows
latest_after_snapshot(old, rows) == old

\* app.state.latest after app.state.latest = snap: the reference to the new
\* list replaces the reference to the old one
published_in_place(old, rows) ==
    [i \in DOMAIN old |-> IF i = 1 THEN rows[i] ELSE old[i]]
published(old, rows) == rows

InitAllocator ==
    /\ is_on = [k \in KeySet |-> TRUE]
    /\ priority = [k \in KeySet |-> IF k = <<"A1", "L2">> THEN 5 ELSE 1]
    /\ intensity_limit_pct = [k \in KeySet |-> 100]
    /\ current_intensity_pct = [k \in KeySet |-> 0]
    /\ stage_duty = [a \in ArraySet |-> 0]
    /\ stage_enabled = [a \in ArraySet |-> TRUE]
    /\ last_shed_time = [k \in KeySet |-> NoTime]
    /\ surplus_start_time = [k \in KeySet |-> NoTime]
    /\ now = 0
    /\ pc = "idle"
    /\ array_objs = NoArrays
    /\ pv_w = 0
    /\ battery_w_available = 0
    /\ leds_to_shed = <<>>
    /\ leds_to_restore = <<>>
    /\ tick_events = <<>>
    /\ surplus_since = NoTime
    /\ snap = NoSnap
    /\ latest = Snapshot(0)
    /\ snapshot_response = NoSnap

----------------------------------------------------------------------------
(* The 1 Hz-class job: JobScheduler.start.sample_job                       *)

\* snapshot, array_objs, pv_power and battery_available are built from the
\* stages and from the readings of this firing
SampleJobRead(ticks) ==
    /\ pc = "idle"
    /\ now < ticks * interval_s
    /\ now' = now + interval_s
    /\ \E r \in [ArraySet -> ReadingW] :
         array_objs' = [a \in ArraySet |->
                          [enabled |-> stage_enabled[a],
                           duty    |-> stage_duty[a],
                           power_w |-> r[a]]]
    /\ \E pv \in PvW : pv_w' = pv
    /\ \E b \in {0, max_discharge_w} : battery_w_available' = b
    /\ leds_to_shed' = <<>>
    /\ leds_to_restore' = <<>>
    /\ tick_events' = <<>>
    /\ snap' = Snapshot(now')
    /\ latest' = latest_after_snapshot(latest, snap')
    /\ pc' = "shed"
    /\ UNCHANGED <<hwVars, snapshot_response, is_on, priority, intensity_limit_pct, current_intensity_pct,
                   stage_duty, stage_enabled, last_shed_time, surplus_start_time,
                   surplus_since>>

\* the job of the scheduler, MaxTicks times at most
sample_job_read == SampleJobRead(MaxTicks)

\* the same job over a run long enough for a load that was shed to be
\* restored: the shed, the first pass with surplus, the delay
sample_job_read_long == SampleJobRead(MaxShedTicks)

\* allocate_power, first half
shed_leds ==
    /\ pc = "shed"
    /\ LET st == ShedResult(array_objs, pv_w, battery_w_available) IN
         /\ is_on' = st.is_on
         /\ current_intensity_pct' = st.cur
         /\ last_shed_time' = st.lst
         /\ leds_to_shed' = st.shed
         /\ tick_events' = tick_events \o st.ev
    /\ pc' = "restore"
    /\ UNCHANGED <<hwVars, snapVars, priority, intensity_limit_pct, stage_duty, stage_enabled,
                   surplus_start_time, now, array_objs, pv_w,
                   battery_w_available, leds_to_restore, surplus_since>>

\* allocate_power, second half
restore_leds ==
    /\ pc = "restore"
    /\ LET st == RestoreResult(array_objs, pv_w, battery_w_available) IN
         /\ is_on' = st.is_on
         /\ current_intensity_pct' = st.cur
         /\ surplus_start_time' = st.sst
         /\ leds_to_restore' = st.restored
         /\ tick_events' = tick_events \o st.ev
         /\ surplus_since' = IF st.low THEN NoTime
                              ELSE IF surplus_since = NoTime THEN now
                              ELSE surplus_since
    /\ pc' = "publish"
    /\ UNCHANGED <<hwVars, snapVars, priority, intensity_limit_pct, stage_duty, stage_enabled,
                   last_shed_time, now, array_objs, pv_w,
                   battery_w_available, leds_to_shed>>

\* the end of the job: its locals are gone
JobReturns ==
    /\ pc' = "idle"
    /\ array_objs' = NoArrays
    /\ pv_w' = 0
    /\ battery_w_available' = 0
    /\ leds_to_shed' = <<>>
    /\ leds_to_restore' = <<>>
    /\ tick_events' = <<>>
    /\ snap' = NoSnap

\* the decisions are copied to the stages' LEDs (the same LED objects: the
\* copy writes each value onto itself), the snapshot is persisted and
\* published, and the job returns
sample_job_publish ==
    /\ pc = "publish"
    /\ latest' = published(latest, snap)
    /\ JobReturns
    /\ UNCHANGED <<hwVars, snapshot_response, is_on, priority, intensity_limit_pct,
                   current_intensity_pct,
                   stage_duty, stage_enabled, last_shed_time,
                   surplus_start_time, now, surplus_since>>

\* the same, but persist_cb(snap) raises (Store.persist: the session's add
\* or commit fails): the exception leaves sample_job before the assignment
\* to app.state.latest
sample_job_persist_raises ==
    /\ pc = "publish"
    /\ JobReturns
    /\ UNCHANGED <<hwVars, latest, snapshot_response, is_on, priority,
                   intensity_limit_pct, current_intensity_pct,
                   stage_duty, stage_enabled, last_shed_time,
                   surplus_start_time, now, surplus_since>>

\* GET /snapshot: the rows of the list app.state.latest refers to
snapshot ==
    /\ snapshot_response' = latest
    /\ UNCHANGED <<hwVars, allocCore, snap, latest>>

----------------------------------------------------------------------------
(* Control commands on the stages                                          *)

\* LEDStage.apply_control, the loop over the LEDs of stage a
LedIntensities(a, onf, lim, duty) ==
    [k \in KeySet |-> IF k[1] = a /\ onf[k] THEN lim[k] * duty
                      ELSE current_intensity_pct[k]]

\* routers/arrays.update_array_settings for one LED of the request
update_array_settings ==
    \E k \in SettingsKeys :
      \E p \in PriorityInputs \cup {NoTime} :
        \E o \in {"unset", "on", "off"} :
          /\ pc = "idle"
          /\ p # NoTime \/ o # "unset"
          /\ priority' = IF p # NoTime THEN [priority EXCEPT ![k] = p] ELSE priority
          /\ is_on' = IF o # "unset" THEN [is_on EXCEPT ![k] = (o = "on")] ELSE is_on
          /\ current_intensity_pct' =
                 LedIntensities(k[1], is_on', intensity_limit_pct, stage_duty[k[1]])
          /\ UNCHANGED <<hwVars, snapVars, intensity_limit_pct, stage_duty,
                         stage_enabled,
                         last_shed_time, surplus_start_time, now, pc,
                         array_objs, pv_w, battery_w_available,
                         leds_to_shed, leds_to_restore, tick_events,
                         surplus_since>>

\* StageManager.control -> LEDStage.apply_control(duty, enable)
control ==
    \E a \in ArraySet :
      \E d \in (IF a \in DutyArrays THEN DutyInputs ELSE {}) \cup {NoTime} :
        \E e \in (IF a \in EnableArrays THEN {"on", "off"} ELSE {}) \cup {"unset"} :
          /\ pc = "idle"
          /\ d # NoTime \/ e # "unset"
          /\ stage_duty' = IF d # NoTime THEN [stage_duty EXCEPT ![a] = d] ELSE stage_duty
          /\ stage_enabled' = IF e # "unset" THEN [stage_enabled EXCEPT ![a] = (e = "on")]
                              ELSE stage_enabled
          /\ current_intensity_pct' =
                 LedIntensities(a, is_on, intensity_limit_pct, stage_duty'[a])
          /\ UNCHANGED <<hwVars, snapVars, is_on, priority, intensity_limit_pct,
                         last_shed_time, surplus_start_time, now, pc,
                         array_objs, pv_w, battery_w_available,
                         leds_to_shed, leds_to_restore, tick_events,
                         surplus_since>>

NextAllocator ==
    \/ sample_job_read
    \/ shed_leds
    \/ restore_leds
    \/ sample_job_publish
    \/ update_array_settings
    \/ control

----------------------------------------------------------------------------
(* Properties of the power budget allocator                                *)

\* the pass that is being made: its steps, its load, supply and surplus
ShedStep == pc = "shed" /\ pc' = "restore"
RestoreStep == pc = "restore" /\ pc' = "publish"
PassLoad == calculate_load(array_objs)
PassSupply == pv_w + battery_w_available
PassSurplus == PassSupply - PassLoad
PassSurplusLow == PassSurplus * 100 <= PassSupply * restore_hysteresis_pct
EnabledKeys == {k \in KeySet : array_objs[k[1]].enabled}
ShedBefore(shed, i) == {shed[j] : j \in 1..(i - 1)}

\* sum of the estimated wattages of the first n restored LEDs
RECURSIVE RestoredPower(_, _)
RestoredPower(restored, n) ==
    IF n = 0 THEN 0
    ELSE EstimatedPower(array_objs, restored[n]) + RestoredPower(restored, n - 1)

\* sum of the led_power_w of the first n events
RECURSIVE EventPower(_, _)
EventPower(ev, n) ==
    IF n = 0 THEN 0 ELSE ev[n].led_power_w + EventPower(ev, n - 1)

\* an off LED whose restore delay has elapsed when the restore pass starts
DelayElapsed(k) ==
    /\ k \in EnabledKeys
    /\ ~is_on[k]
    /\ surplus_start_time[k] # NoTime
    /\ now - surplus_start_time[k] >= restore_delay_s

\* C1: a shed pass turns loads off in ascending priority order over all
\* enabled arrays: when a load is turned off, no load of strictly lower
\* priority is still on.
C1_ShedLowestPriorityFirst ==
    [][ShedStep =>
         \A i \in 1..Len(leds_to_shed') :
           \A k \in EnabledKeys :
             (is_on[k] /\ k \notin ShedBefore(leds_to_shed', i))
               => priority[k] >= priority[leds_to_shed'[i]]]_vars

C5_LowSurplusRestoresNothing ==
    [][(RestoreStep /\ PassSurplusLow) =>
         /\ is_on' = is_on
         /\ current_intensity_pct' = current_intensity_pct
         /\ tick_events' = tick_events
         /\ leds_to_restore' = <<>>
         /\ \A k \in KeySet : surplus_start_time'[k] = NoTime]_vars

\* a pass saw a positive surplus below the threshold while a load was off
C5_Witness ==
    /\ pc = "publish"
    /\ PassSurplusLow
    /\ PassSurplus > 0
    /\ \E k \in EnabledKeys : ~is_on[k]

\* C6: a shed pass changes nothing when the load is within the supply;
\* otherwise each load is turned off while the deficit left by the loads
\* shed before it is positive, and the pass ends when the deficit is
\* covered or no load of an enabled array is on.
C6_ShedOnlyWhileDeficit ==
    [][ShedStep =>
         /\ PassLoad <= PassSupply =>
              /\ is_on' = is_on
              /\ current_intensity_pct' = current_intensity_pct
              /\ last_shed_time' = last_shed_time
              /\ surplus_start_time' = surplus_start_time
              /\ tick_events' = tick_events
              /\ leds_to_shed' = <<>>
         /\ PassLoad > PassSupply =>
              /\ Len(tick_events') = Len(leds_to_shed')
              /\ \A i \in 1..Len(leds_to_shed') :
                   /\ tick_events'[i].key = leds_to_shed'[i]
                   /\ is_on[leds_to_shed'[i]] /\ ~is_on'[leds_to_shed'[i]]
                   /\ (PassLoad - PassSupply) * WScale
                        - EventPower(tick_events', i - 1) > 0
              /\ \A k \in KeySet : (is_on[k] /\ ~is_on'[k]) => k \in SeqToSet(leds_to_shed')
              /\ \/ (PassLoad - PassSupply) * WScale
                      - EventPower(tick_events', Len(tick_events')) <= 0
                 \/ \A k \in EnabledKeys : ~is_on'[k]]_vars

\* a pass shed two loads and stopped with a load still on
C6_Witness ==
    /\ pc = "restore"
    /\ Len(leds_to_shed) = 2
    /\ \E k \in EnabledKeys : is_on[k]

----------------------------------------------------------------------------
(* Part B.  Numbers.  The code computes intensities, powers and duties in  *)
(* floating point; the model computes them as exact fractions [n, d] in    *)
(* lowest terms with d > 0.  Times are whole seconds.                      *)

\* last clock value explored by the hardware specifications
MaxNow == 6
\* seconds by which the clock of the hardware specifications advances
ClockStep == 3

RECURSIVE GCD(_, _)
GCD(a, b) == IF b = 0 THEN a ELSE GCD(b, a % b)
Abs(x) == IF x < 0 THEN -x ELSE x
Rat(n, d) == LET g == GCD(Abs(n), d) IN [n |-> n \div g, d |-> d \div g]
Zero == Rat(0, 1)
One == Rat(1, 1)
RatAdd(a, b) == Rat(a.n * b.d + b.n * a.d, a.d * b.d)
RatSub(a, b) == Rat(a.n * b.d - b.n * a.d, a.d * b.d)
RatMul(a, b) == Rat(a.n * b.n, a.d * b.d)
RatLt(a, b) == a.n * b.d < b.n * a.d
RatLe(a, b) == a.n * b.d <= b.n * a.d
RatMin(a, b) == IF RatLe(a, b) THEN a ELSE b
RatMax(a, b) == IF RatLe(a, b) THEN b ELSE a
\* int(x) of a fraction that is not negative
IntPart(a) == a.n \div a.d

----------------------------------------------------------------------------
(* Presets: services/preset_manager.py                                     *)

NoPreset == 0
NoResult == [n |-> -1, d |-> 1]
WavemakerNums == 1..12
\* no call of Channel.set_mode is in progress
NoCall == [step |-> "none"]

Keyframe(t, p) == [time |-> t, power |-> p]

\* the flow curves of two of the built-in presets
PulseCurve(i) ==
    <<Keyframe(0, 0), Keyframe(20, 100), Keyframe(50, 0), Keyframe(100, 0)>>
PairedPoliceCurve(i) ==
    LET is_odd == (i % 2) = 1 IN
    <<Keyframe(0, IF is_odd THEN 100 ELSE 0),
      Keyframe(50, IF is_odd THEN 0 ELSE 100),
      Keyframe(100, IF is_odd THEN 100 ELSE 0)>>

\* the rows of the preset table that the model carries, by id: the ids are
\* those the built-in presets get in an empty table (2: Pulse, 9: Paired
\* Police)
PulseId == 2
PairedPoliceId == 9
FeedModeId == 5
\* _create_feed_mode_preset: every wavemaker at 5 %
FeedModeCurve(i) == <<Keyframe(0, 5), Keyframe(100, 5)>>
StorePresets ==
    (PulseId :> [name |-> "Pulse",
                 description |-> "Short bursts of strong flow",
                 cycle_duration_sec |-> 10,
                 is_built_in |-> TRUE,
                 flow_curves |-> [i \in WavemakerNums |-> PulseCurve(i)]])
    @@ (PairedPoliceId :>
                [name |-> "Paired Police",
                 description |->
                     "Each pair oscillates independently (1-2, 3-4, 5-6...)",
                 cycle_duration_sec |-> 2,
                 is_built_in |-> TRUE,
                 flow_curves |-> [i \in WavemakerNums |-> PairedPoliceCurve(i)]])
    @@ (FeedModeId :>
                [name |-> "Feed Mode",
                 description |-> "Minimal flow for feeding time",
                 cycle_duration_sec |-> 600,
                 is_built_in |-> TRUE,
                 flow_curves |-> [i \in WavemakerNums |-> FeedModeCurve(i)]])

\* Store.get_preset: the row or nothing
HasPreset(preset_id) == preset_id \in DOMAIN presets
get_preset(preset_id) == presets[preset_id]

\* the curve left in the order of the list
curve_sorted_not(curve) == curve

\* sorted(curve, key=time): a stable sort, which leaves a curve that is in
\* order as it is
curve_sorted(curve) ==
    LET n == Len(curve)
        rank(i) == 1 + Cardinality({j \in 1..n :
                         \/ curve[j].time < curve[i].time
                         \/ curve[j].time = curve[i].time /\ j < i})
    IN IF \A j \in 1..(n - 1) : curve[j].time <= curve[j + 1].time
       THEN curve
       ELSE [r \in 1..n |-> curve[CHOOSE i \in 1..n : rank(i) = r]]

\* the loop of _interpolate_power over the segments, from segment i
RECURSIVE SegmentPower(_, _, _)
SegmentPower(cs, time_pos, i) ==
    IF i > Len(cs) - 1 THEN Rat(cs[Len(cs)].power, 1)
    ELSE LET p1 == cs[i]
             p2 == cs[i + 1]
         IN IF RatLe(Rat(p1.time, 1), time_pos) /\ RatLe(time_pos, Rat(p2.time, 1))
            THEN LET t_range == p2.time - p1.time IN
                 IF t_range = 0 THEN Rat(p1.power, 1)
                 ELSE LET t_ratio == RatMul(RatSub(time_pos, Rat(p1.time, 1)),
                                            Rat(1, t_range))
                      IN RatAdd(Rat(p1.power, 1),
                                RatMul(t_ratio, Rat(p2.power - p1.power, 1)))
            ELSE SegmentPower(cs, time_pos, i + 1)

\* PresetManager._interpolate_power
interpolate_power(curve, time_pos) ==
    IF curve = <<>> THEN Zero
    ELSE LET cs == curve_sorted(curve) IN
         IF RatLe(time_pos, Rat(cs[1].time, 1)) THEN Rat(cs[1].power, 1)
         ELSE IF RatLe(Rat(cs[Len(cs)].time, 1), time_pos)
              THEN Rat(cs[Len(cs)].power, 1)
         ELSE SegmentPower(cs, time_pos, 1)

ZeroLevels == [i \in WavemakerNums |-> Zero]

\* the levels with full power for a preset the store does not have
get_current_power_levels_full(t) ==
    IF active_preset_id = NoPreset THEN ZeroLevels
    ELSE IF ~HasPreset(active_preset_id)
    THEN [i \in WavemakerNums |-> Rat(100, 1)]
    ELSE LET preset == get_preset(active_preset_id)
             elapsed == t - cycle_start_time
             position_in_cycle_sec == elapsed % preset.cycle_duration_sec
             position_in_cycle_pct ==
                 Rat(position_in_cycle_sec * 100, preset.cycle_duration_sec)
         IN <<>> \o [i \in WavemakerNums |->
               IF i \in DOMAIN preset.flow_curves
               THEN interpolate_power(preset.flow_curves[i], position_in_cycle_pct)
               ELSE Zero]
\* PresetManager.get_current_power_levels at time t
get_current_power_levels(t) ==
    IF active_preset_id = NoPreset THEN ZeroLevels
    ELSE IF ~HasPreset(active_preset_id) THEN ZeroLevels
    ELSE LET preset == get_preset(active_preset_id)
             elapsed == t - cycle_start_time
             position_in_cycle_sec == elapsed % preset.cycle_duration_sec
             position_in_cycle_pct ==
                 Rat(position_in_cycle_sec * 100, preset.cycle_duration_sec)
         \* the dictionary is built once, in the order of the channels
         IN <<>> \o [i \in WavemakerNums |->
               IF i \in DOMAIN preset.flow_curves
               THEN interpolate_power(preset.flow_curves[i], position_in_cycle_pct)
               ELSE Zero]

\* PresetManager.get_active_preset is not None
HasActivePreset == active_preset_id # NoPreset /\ HasPreset(active_preset_id)

\* "elapsed % preset.cycle_duration_sec" raises ZeroDivisionError and the
\* exception leaves get_current_power_levels
ZeroDivisionError ==
    /\ HasActivePreset
    /\ get_preset(active_preset_id).cycle_duration_sec = 0

\* the levels realtime_tick works with: what the preset manager returns, or
\* the empty dictionary preset_power_levels begins as when the call raises
\* into the inner except clause
tick_power_levels(t) ==
    IF ZeroDivisionError THEN <<>> ELSE get_current_power_levels(t)

----------------------------------------------------------------------------
(* Devices and patterns: services/hw_devices.py, services/hw_patterns.py   *)

\* identifiers of the model: "WM1" and "LED1" are registered at startup,
\* "PUMP" is an identifier a client may give to a wavemaker it creates
WmIds == {"WM1", "PUMP"}
LedIds == {"LED1"}
CreateIds == {"PUMP"}
PatternIds == {"PUMP"}
NoWavemaker == "none"
FollowInputs == {NoWavemaker, "WM1"}
ManualDutyInputs == {Rat(1, 2)}
PresetIdInputs == {PulseId}
NoResponse == 0

\* a slot of the registry without a device
NoDevice == [registered |-> FALSE, min_intensity |-> Zero,
             max_intensity |-> One, current_duty |-> Zero]
\* PWMDevice.__init__
PWMDevice(min_intensity, max_intensity) ==
    [registered |-> TRUE, min_intensity |-> min_intensity,
     max_intensity |-> max_intensity, current_duty |-> Zero]

\* PWMDevice.apply
apply(device, intensity) ==
    LET clamped == RatMax(Zero, RatMin(One, intensity))
        scaled == RatAdd(device.min_intensity,
                         RatMul(clamped, RatSub(device.max_intensity,
                                                device.min_intensity)))
    IN [device EXCEPT !.current_duty = scaled]

\* PWMDevice.stop
stop(device) == [device EXCEPT !.current_duty = Zero]

\* a slot of the pattern registry without a pattern
NoPattern == [present |-> FALSE, mode |-> "OFF", period_s |-> 0,
              on_ratio |-> Zero, phase_deg |-> 0, min_intensity |-> Zero,
              max_intensity |-> Zero, start_time |-> 0,
              last_random |-> Zero, random_target |-> Zero,
              random_update_time |-> 0]
\* Pattern.__init__ at time t
Pattern(config, t) ==
    [present |-> TRUE, mode |-> config.mode, period_s |-> config.period_s,
     on_ratio |-> config.on_ratio, phase_deg |-> config.phase_deg,
     min_intensity |-> config.min_intensity,
     max_intensity |-> config.max_intensity, start_time |-> t,
     last_random |-> Rat(1, 2), random_target |-> Rat(1, 2),
     random_update_time |-> 0]
\* Pattern.update_config
update_config(pattern, config) ==
    [pattern EXCEPT !.mode = config.mode, !.period_s = config.period_s,
                    !.on_ratio = config.on_ratio,
                    !.phase_deg = config.phase_deg,
                    !.min_intensity = config.min_intensity,
                    !.max_intensity = config.max_intensity]

PatternConfig(mode, period_s, on_ratio, phase_deg, min_intensity, max_intensity) ==
    [mode |-> mode, period_s |-> period_s, on_ratio |-> on_ratio,
     phase_deg |-> phase_deg,
     min_intensity |-> min_intensity, max_intensity |-> max_intensity]
\* the pattern created for WM1 at startup
default_pattern == PatternConfig("PULSE", 6, Rat(1, 2), 0, Zero, One)
\* the configurations a client sends (PatternUpdate with its defaults)
PatternInputs == {PatternConfig("CONSTANT", 5, Rat(1, 2), 0, Zero, One)}

\* the pulse that is still on when the phase equals on_ratio
pulse_pattern_inclusive(pattern, t) ==
    IF pattern.period_s <= 0 THEN One
    ELSE LET phase == Rat(t % pattern.period_s, pattern.period_s) IN
         IF RatLe(phase, pattern.on_ratio) THEN One ELSE Zero
\* Pattern._pulse_pattern
pulse_pattern(pattern, t) ==
    IF pattern.period_s <= 0 THEN One
    ELSE LET phase == Rat(t % pattern.period_s, pattern.period_s) IN
         IF RatLt(phase, pattern.on_ratio) THEN One ELSE Zero

\* math.sin of an angle given in turns (the angle divided by 2*pi), for the
\* angles whose sine is a fraction: the multiples of a quarter turn and the
\* odd multiples of a twelfth
sin_turns(x) ==
    LET twelfths == ((x.n * 12) \div x.d) % 12 IN
    CASE twelfths \in {0, 6} -> Zero
      [] twelfths \in {1, 5} -> Rat(1, 2)
      [] twelfths = 3 -> One
      [] twelfths \in {7, 11} -> Rat(-1, 2)
      [] twelfths = 9 -> Rat(-1, 1)

\* Pattern._gyre_pattern, phase_rad being phase_deg / 360 turns
gyre_pattern_sine(pattern, t) ==
    IF pattern.period_s <= 0 THEN Rat(1, 2)
    ELSE LET phase == Rat(t % pattern.period_s, pattern.period_s) IN
         sin_turns(RatAdd(phase, Rat(pattern.phase_deg, 360)))
gyre_pattern(pattern, t) ==
    IF pattern.period_s <= 0 THEN Rat(1, 2)
    ELSE LET phase == Rat(t % pattern.period_s, pattern.period_s) IN
         RatMul(Rat(1, 2),
                RatAdd(One, sin_turns(RatAdd(phase, Rat(pattern.phase_deg, 360)))))

\* hash(n) of an int that is not negative and below the modulus of the hash
hash(n) == n

\* the generator after Pattern._random_pattern(t): the target is drawn anew
\* when more than 10 s have passed since it was, and _last_random moves
\* towards it
random_pattern(pattern, t) ==
    LET renew == t - pattern.random_update_time > 10
        random_target == IF renew
                         THEN RatAdd(Rat(3, 10),
                                     RatMul(Rat(7, 10),
                                            Rat(hash(t \div 10) % 1000, 1000)))
                         ELSE pattern.random_target
        random_update_time == IF renew THEN t ELSE pattern.random_update_time
        alpha == RatMin(One, Rat(t - random_update_time, 5))
    IN [pattern EXCEPT
          !.random_target = random_target,
          !.random_update_time = random_update_time,
          !.last_random = RatAdd(RatMul(@, RatSub(One, alpha)),
                                 RatMul(random_target, alpha))]

\* the generator after Pattern.value(t): only _random_pattern has state
evaluated(pattern, t) ==
    IF pattern.mode = "RANDOM"
    THEN random_pattern(pattern, t - pattern.start_time)
    ELSE pattern

\* Pattern.value
value(pattern, t) ==
    LET rel_t == t - pattern.start_time
        raw == CASE pattern.mode = "OFF" -> Zero
                 [] pattern.mode = "CONSTANT" -> One
                 [] pattern.mode = "PULSE" -> pulse_pattern(pattern, rel_t)
                 [] pattern.mode = "GYRE" -> gyre_pattern(pattern, rel_t)
                 [] pattern.mode = "RANDOM" ->
                        random_pattern(pattern, rel_t).last_random
                 [] OTHER -> Zero
    IN RatAdd(pattern.min_intensity,
              RatMul(raw, RatSub(pattern.max_intensity, pattern.min_intensity)))

----------------------------------------------------------------------------
(* Two pattern generators evaluated on their own: both are created at time *)
(* 0 with one configuration drawn from GeneratorConfigs, and each is asked  *)
(* for its value at times of its clock.                                    *)

\* seconds by which the clock of the generators advances, and its last time
PatternStep == 4
MaxPatternTime == 20

GeneratorIds == {"A", "B"}
NoValue == [t |-> -1, v |-> Zero]

\* the variables of the other parts of the program
programVars == <<allocCore, snapVars, presetVars, rtVars, wmVars, interpVars,
                 triggerVars, presets>>

IntensityRanges == {<<Zero, One>>, <<Rat(1, 5), Rat(4, 5)>>}
PulseConfigs ==
    {PatternConfig("PULSE", period_s, on_ratio, 0, r[1], r[2]) :
        period_s \in {-1, 0, 6, 10},
        on_ratio \in {Zero, Rat(2, 5), Rat(1, 2), One},
        r \in IntensityRanges}
\* periods and phase offsets for which every angle has a sine that is a
\* fraction
GyreConfigs ==
    {PatternConfig("GYRE", pp[1], Rat(1, 2), pp[2], r[1], r[2]) :
        pp \in {<<6, 30>>, <<4, 0>>, <<4, 90>>, <<2, 0>>, <<0, 0>>, <<-1, 0>>},
        r \in IntensityRanges}
RandomConfigs ==
    {PatternConfig("RANDOM", 5, Rat(1, 2), 0, r[1], r[2]) : r \in IntensityRanges}
GeneratorConfigs ==
    PulseConfigs \cup GyreConfigs \cup RandomConfigs
        \cup {PatternConfig("CONSTANT", 5, Rat(1, 2), 0, Rat(1, 5), Rat(4, 5)),
               PatternConfig("OFF", 5, Rat(1, 2), 0, Rat(1, 5), Rat(4, 5))}

InitPattern ==
    /\ \E config \in GeneratorConfigs :
          generators = [g \in GeneratorIds |-> Pattern(config, 0)]
    /\ pattern_t = 0
    /\ pattern_result = [g \in GeneratorIds |-> NoValue]

\* time.time() of the generators moves on
pattern_time_passes ==
    /\ pattern_t + PatternStep <= MaxPatternTime
    /\ pattern_t' = pattern_t + PatternStep
    /\ UNCHANGED <<programVars, deviceVars, importVars, telemetryVars, stopVars,
                   automationVars, generators,
                   pattern_result>>

\* Pattern.value(t) of one generator at the time of the clock, once at each
\* time
PatternValue(g) ==
    /\ pattern_result[g].t < pattern_t
    /\ pattern_result' = [pattern_result EXCEPT
                             ![g] = [t |-> pattern_t,
                                     v |-> value(generators[g], pattern_t)]]
    /\ generators' = [generators EXCEPT ![g] = evaluated(@, pattern_t)]
    /\ UNCHANGED <<programVars, deviceVars, importVars, telemetryVars, stopVars,
                   automationVars, pattern_t>>

pattern_value == \E g \in GeneratorIds : PatternValue(g)

----------------------------------------------------------------------------
(* The device registry and the routes that configure its devices:          *)
(* services/hw_devices.py, hw/gpio_mock.py, routers/hardware.py,           *)
(* routers/settings.py                                                     *)

\* no more handles than this are created in a run of the model
MaxHandles == 4

\* the fields of DeviceConfig the routes read and write (the name, the
\* monitor pin and the channel name are carried along and left out here)
DeviceConfig(gpio_pin, pwm_freq_hz, min_intensity, max_intensity, volts_min, volts_max) ==
    [gpio_pin |-> gpio_pin, pwm_freq_hz |-> pwm_freq_hz,
     min_intensity |-> min_intensity, max_intensity |-> max_intensity,
     volts_min |-> volts_min, volts_max |-> volts_max]

\* PigpioPWM(pin, freq) of the mock driver; released: cleanup() was called
PigpioPWM(pin, freq) ==
    [pin |-> pin, freq |-> freq, duty |-> Zero, running |-> FALSE,
     released |-> FALSE]

HwCall(op, hw) == [op |-> op, hw |-> hw]

\* the handles and the calls made on them, as one value: [handles, log]
Hardware(handles, log) == [handles |-> handles, log |-> log]

\* PigpioPWM.stop
hw_stop(hs, hw) ==
    Hardware([hs.handles EXCEPT ![hw].running = FALSE, ![hw].duty = Zero],
             Append(hs.log, HwCall("stop", hw)))

\* PigpioPWM.cleanup: stop(), then the instance is forgotten
hw_cleanup(hs, hw) ==
    Hardware([hs.handles EXCEPT ![hw].running = FALSE, ![hw].duty = Zero,
                                ![hw].released = TRUE],
             Append(hs.log, HwCall("cleanup", hw)))

\* PigpioPWM.set_frequency
hw_set_frequency(hs, hw, hz) ==
    Hardware([hs.handles EXCEPT ![hw].freq = hz], hs.log)

\* PWMDevice(config): a new handle on the pin of the configuration
NewDevice(hs, config) ==
    [device |-> [config |-> config, hw |-> Len(hs.handles) + 1],
     hs |-> Hardware(Append(hs.handles,
                            PigpioPWM(config.gpio_pin, config.pwm_freq_hz)),
                     Append(hs.log, HwCall("init", Len(hs.handles) + 1)))]

\* PWMDevice.stop and PWMDevice.cleanup of the device that holds handle hw
device_stop(hs, hw) == hw_stop(hs, hw)

cleanup_stop_only(hs, hw) == hw_stop(hs, hw)
cleanup(hs, hw) == hw_cleanup(hw_stop(hs, hw), hw)

\* the map of the registry a device type is kept in
DeviceMap(reg, device_type) ==
    IF device_type = "WAVEMAKER" THEN reg.wavemakers ELSE reg.leds

WithDevice(reg, device_type, device_id, device) ==
    IF device_type = "WAVEMAKER"
    THEN [reg EXCEPT !.wavemakers = (device_id :> device) @@ @]
    ELSE [reg EXCEPT !.leds = (device_id :> device) @@ @]

\* DeviceRegistry.register_wavemaker / register_led: [registry, hs]
register_device(reg, hs, device_id, config, device_type) ==
    LET new == NewDevice(hs, config)
    IN  [registry |-> WithDevice(reg, device_type, device_id, new.device),
         hs |-> new.hs]

\* PWMDevice.set_frequency, set_range on the device of an id
set_frequency(reg, hs, device_type, device_id, freq_hz) ==
    LET device == DeviceMap(reg, device_type)[device_id]
    IN  [registry |-> WithDevice(reg, device_type, device_id,
                          [device EXCEPT !.config.pwm_freq_hz = freq_hz]),
         hs |-> hw_set_frequency(hs, device.hw, freq_hz)]

set_range(device, min_intensity, max_intensity) ==
    [device EXCEPT !.config.min_intensity = min_intensity,
                   !.config.max_intensity = max_intensity]

\* DeviceRegistry.update_device_config: [registry, hs]; an id the map of
\* the type does not have is left alone
update_device_config(reg, hs, device_id, config, device_type) ==
    IF device_id \notin DOMAIN DeviceMap(reg, device_type)
    THEN [registry |-> reg, hs |-> hs]
    ELSE LET device == DeviceMap(reg, device_type)[device_id]
             ranged == [device EXCEPT
                           !.config.min_intensity = config.min_intensity,
                           !.config.max_intensity = config.max_intensity,
                           !.config.volts_min = config.volts_min,
                           !.config.volts_max = config.volts_max]
             reg1 == WithDevice(reg, device_type, device_id, ranged)
         IN  IF device.config.pwm_freq_hz # config.pwm_freq_hz
             THEN set_frequency(reg1, hs, device_type, device_id,
                                config.pwm_freq_hz)
             ELSE [registry |-> reg1, hs |-> hs]

\* DeviceRegistry.reload_device: [registry, hs]
reload_device(reg, hs, device_id, config, device_type) ==
    LET map == DeviceMap(reg, device_type)
        hs1 == IF device_id \in DOMAIN map
               THEN cleanup(device_stop(hs, map[device_id].hw),
                            map[device_id].hw)
               ELSE hs
        new == NewDevice(hs1, config)
    IN  [registry |-> WithDevice(reg, device_type, device_id, new.device),
         hs |-> new.hs]

\* the devices of a map of the registry as the real-time loop applies
\* intensities to them: range and duty; a device on a new handle starts at
\* duty zero
LoopDevices(ids, view, old_map, new_map) ==
    [d \in ids |->
        IF d \notin DOMAIN new_map THEN NoDevice
        ELSE [registered |-> TRUE,
              min_intensity |-> new_map[d].config.min_intensity,
              max_intensity |-> new_map[d].config.max_intensity,
              current_duty |-> IF /\ d \in DOMAIN old_map
                                  /\ old_map[d].hw = new_map[d].hw
                               THEN view[d].current_duty ELSE Zero]]

\* what the routes of this section leave alone
deviceFrame == <<allocCore, snapVars, presetVars, wmVars, interpVars,
                 triggerVars, presets, patternVars, importVars, telemetryVars,
                 stopVars, automationVars,
                 manual_devices, led_follow_map, patterns>>

\* the state a route of this section leaves: s is [registry, hs]
DevicesBecome(s, rows, status) ==
    /\ registry' = s.registry
    /\ hw_handles' = s.hs.handles
    /\ hw_log' = s.hs.log
    /\ device_rows' = rows
    /\ wavemakers' = LoopDevices(WmIds, wavemakers, registry.wavemakers,
                                 s.registry.wavemakers)
    /\ leds' = LoopDevices(LedIds, leds, registry.leds, s.registry.leds)
    /\ device_configs' = device_configs \cup DOMAIN rows
    /\ http_status' = status
    /\ UNCHANGED deviceFrame

DevicesNow == [registry |-> registry, hs |-> Hardware(hw_handles, hw_log)]

\* the bodies of DeviceSettingsUpdate and DeviceConfigUpdate: the fields
\* named in given are set, the others are None (unset)
DeviceSettings(gpio_pin, pwm_freq_hz, min_intensity, max_intensity, volts_min, volts_max, given) ==
    [gpio_pin |-> gpio_pin, pwm_freq_hz |-> pwm_freq_hz,
     min_intensity |-> min_intensity, max_intensity |-> max_intensity,
     volts_min |-> volts_min, volts_max |-> volts_max, given |-> given]

RangeFields == {"min_intensity", "max_intensity"}
VoltFields == {"volts_min", "volts_max"}

\* bodies with min < max, with min > max, with min = max and with a pin
SettingsInputs ==
    {DeviceSettings(21, 400, Rat(1, 5), Rat(4, 5), One, Rat(3, 1),
                    RangeFields \cup {"pwm_freq_hz"}),
     DeviceSettings(21, 400, Rat(4, 5), Rat(1, 5), One, Rat(3, 1),
                    RangeFields \cup {"pwm_freq_hz"}),
     DeviceSettings(21, 400, Rat(1, 2), Rat(1, 2), One, Rat(3, 1),
                    RangeFields \cup VoltFields),
     DeviceSettings(21, 400, Rat(1, 2), Rat(1, 2), One, Rat(3, 1),
                    {"gpio_pin"})}

\* the invalid configuration of a request: both bounds given, min >= max
InvalidRange(settings) ==
    /\ RangeFields \subseteq settings.given
    /\ RatLe(settings.max_intensity, settings.min_intensity)

\* POST /hardware/wavemakers/{device_id}/settings
UpdateWavemakerSettings(device_id, settings) ==
    IF device_id \notin DOMAIN registry.wavemakers
    THEN DevicesBecome(DevicesNow, device_rows, 404)
    ELSE LET s1 == IF "pwm_freq_hz" \in settings.given
                   THEN set_frequency(registry, DevicesNow.hs, "WAVEMAKER",
                                      device_id, settings.pwm_freq_hz)
                   ELSE DevicesNow
             d1 == s1.registry.wavemakers[device_id]
             d2 == IF RangeFields \subseteq settings.given
                   THEN set_range(d1, settings.min_intensity,
                                  settings.max_intensity)
                   ELSE d1
             d3 == IF "volts_min" \in settings.given
                   THEN [d2 EXCEPT !.config.volts_min = settings.volts_min]
                   ELSE d2
             d4 == IF "volts_max" \in settings.given
                   THEN [d3 EXCEPT !.config.volts_max = settings.volts_max]
                   ELSE d3
         IN  IF InvalidRange(settings)
             THEN DevicesBecome(s1, device_rows, 400)
             ELSE DevicesBecome(
                      [s1 EXCEPT !.registry = WithDevice(@, "WAVEMAKER",
                                                         device_id, d4)],
                      device_rows, 200)

update_wavemaker_settings ==
    \E device_id \in WmIds, settings \in SettingsInputs :
        UpdateWavemakerSettings(device_id, settings)

\* a row of the table of device configurations (DeviceConfigRow)
DeviceConfigRow(device_type, config, follow_device_id) ==
    [device_type |-> device_type, config |-> config,
     follow_device_id |-> follow_device_id]

\* the bodies of DeviceConfigCreate the clients of the model send
DeviceCreateInputs ==
    {[device_id |-> "WM1",
      row |-> DeviceConfigRow("WAVEMAKER",
                  DeviceConfig(18, 200, Rat(5, 100), One, Zero, Rat(3, 5)),
                  NoWavemaker)],
     [device_id |-> "PUMP",
      row |-> DeviceConfigRow("WAVEMAKER",
                  DeviceConfig(20, 200, Zero, One, Zero, Rat(5, 1)),
                  NoWavemaker)]}

\* a row other than that of device_id has the pin
PinInUse(rows, device_id, gpio_pin) ==
    \E other \in DOMAIN rows :
        other # device_id /\ rows[other].config.gpio_pin = gpio_pin

\* POST /api/settings/hardware with the row stored and the device
\* registered on a handle of its own
CreateDevice(device) ==
    IF \/ device.device_id \in DOMAIN device_rows
       \/ PinInUse(device_rows, device.device_id, device.row.config.gpio_pin)
    THEN DevicesBecome(DevicesNow, device_rows, 409)
    ELSE DevicesBecome(
             register_device(registry, DevicesNow.hs, device.device_id,
                             device.row.config, device.row.device_type),
             (device.device_id :> device.row) @@ device_rows, 200)

create_device_request ==
    \E device \in DeviceCreateInputs :
        /\ Len(hw_handles) < MaxHandles
        /\ CreateDevice(device)

\* Store.update_device_config: the fields given are set on the row
update_row(row, updates) ==
    [row EXCEPT !.config =
        [f \in DOMAIN row.config |->
            IF f \in updates.given THEN updates[f] ELSE row.config[f]]]

\* PUT /api/settings/hardware/{device_id}
UpdateDevice(device_id, updates) ==
    IF device_id \notin DOMAIN device_rows
    THEN DevicesBecome(DevicesNow, device_rows, 404)
    ELSE IF /\ "gpio_pin" \in updates.given
            /\ PinInUse(device_rows, device_id, updates.gpio_pin)
    THEN DevicesBecome(DevicesNow, device_rows, 409)
    ELSE LET updated == update_row(device_rows[device_id], updates)
             rows == [device_rows EXCEPT ![device_id] = updated]
         IN  IF "gpio_pin" \in updates.given
             THEN DevicesBecome(
                      reload_device(registry, DevicesNow.hs, device_id,
                                    updated.config, updated.device_type),
                      rows, 200)
             ELSE DevicesBecome(
                      update_device_config(registry, DevicesNow.hs,
                                           device_id, updated.config,
                                           updated.device_type),
                      rows, 200)

DeviceIdInputs == WmIds \cup LedIds

update_device ==
    \E device_id \in DeviceIdInputs, updates \in SettingsInputs :
        /\ "gpio_pin" \in updates.given => Len(hw_handles) < MaxHandles
        /\ UpdateDevice(device_id, updates)

\* the registry after startup: WM1 and LED1 on their pins, no row stored
InitDevices ==
    /\ registry =
         [wavemakers |->
             ("WM1" :> [config |-> DeviceConfig(18, 200, Rat(5, 100), One,
                                                Zero, Rat(3, 5)),
                        hw |-> 1]),
          leds |->
             ("LED1" :> [config |-> DeviceConfig(19, 800, Zero, One, Zero,
                                                 Rat(5, 1)),
                         hw |-> 2])]
    /\ hw_handles = <<PigpioPWM(18, 200), PigpioPWM(19, 800)>>
    /\ hw_log = <<HwCall("init", 1), HwCall("init", 2)>>
    /\ device_rows = <<>>

----------------------------------------------------------------------------
(* The real-time loop: hw_scheduler/realtime_loop.py                       *)

\* int(device_id.replace("WM", "")) on the identifiers of the model
ValueError == -1
WmNumber(device_id) ==
    CASE device_id = "WM1" -> 1
      [] device_id = "PUMP" -> ValueError

\* any(v > 0 for v in levels.values())
AnyPositive(levels) == \E i \in DOMAIN levels : RatLt(Zero, levels[i])

\* "if device_id in manual_devices: continue"
SkipManual_never(device_id, manual) == FALSE
SkipManual(device_id, manual) == device_id \in manual

\* the intensity the loop chooses for wavemaker wavemaker_id, or none
TickIntensity(wavemaker_id, preset_active, preset_power_levels, t) ==
    LET wm_num == WmNumber(wavemaker_id) IN
    IF preset_active /\ wm_num \in DOMAIN preset_power_levels
    THEN [some |-> TRUE,
          v |-> RatMul(preset_power_levels[wm_num], Rat(1, 100))]
    ELSE IF patterns[wavemaker_id].present
    THEN [some |-> TRUE, v |-> value(patterns[wavemaker_id], t)]
    ELSE [some |-> FALSE, v |-> Zero]

\* realtime_tick at time t: the two loops
TickWavemakers(levels, t) ==
    LET preset_active == AnyPositive(levels)
    IN [d \in WmIds |->
          IF ~wavemakers[d].registered THEN wavemakers[d]
          ELSE IF SkipManual(d, manual_devices) THEN wavemakers[d]
          ELSE IF WmNumber(d) = ValueError THEN wavemakers[d]
          ELSE LET x == TickIntensity(d, preset_active, levels, t) IN
               IF x.some THEN apply(wavemakers[d], x.v) ELSE wavemakers[d]]

TickLeds(levels, t) ==
    LET preset_active == AnyPositive(levels)
    IN [l \in LedIds |->
          IF led_follow_map[l] = NoWavemaker THEN leds[l]
          ELSE IF SkipManual(l, manual_devices) THEN leds[l]
          ELSE IF WmNumber(led_follow_map[l]) = ValueError THEN leds[l]
          ELSE LET x == TickIntensity(led_follow_map[l], preset_active, levels, t) IN
               IF x.some /\ leds[l].registered THEN apply(leds[l], x.v)
               ELSE leds[l]]

\* the order of the two loops: the order in which the devices entered the
\* registry and the follow map
WmOrder == <<"WM1", "PUMP">>
LedOrder == <<"LED1">>
Index(order, x) == CHOOSE i \in DOMAIN order : order[i] = x

\* the device whose PWM call raises during a tick, NoFailure if none does
NoFailure == "none"
PwmFailInputs == {NoFailure, "WM1", "LED1"}

\* the loops call apply on the device
WmApplies(d, levels, t) ==
    /\ wavemakers[d].registered
    /\ ~SkipManual(d, manual_devices)
    /\ WmNumber(d) # ValueError
    /\ TickIntensity(d, AnyPositive(levels), levels, t).some
LedApplies(l, levels, t) ==
    /\ led_follow_map[l] # NoWavemaker
    /\ ~SkipManual(l, manual_devices)
    /\ WmNumber(led_follow_map[l]) # ValueError
    /\ TickIntensity(led_follow_map[l], AnyPositive(levels), levels, t).some
    /\ leds[l].registered

\* the exception of a PWM call leaves apply before current_duty is
\* assigned and ends the tick in its except clause: the device and those
\* that come after it in the loops keep their state
WmRaises(failing, levels, t) ==
    failing \in WmIds /\ WmApplies(failing, levels, t)
LedRaises(failing, levels, t) ==
    failing \in LedIds /\ LedApplies(failing, levels, t)

\* the two loops of realtime_tick with the levels of the preset manager, the
\* PWM call on device failing raising
TickLoops(levels, failing) ==
    /\ wavemakers' =
         IF WmRaises(failing, levels, now)
         THEN [d \in WmIds |->
                 IF Index(WmOrder, d) < Index(WmOrder, failing)
                 THEN TickWavemakers(levels, now)[d]
                 ELSE wavemakers[d]]
         ELSE TickWavemakers(levels, now)
    /\ leds' =
         IF WmRaises(failing, levels, now) THEN leds
         ELSE IF LedRaises(failing, levels, now)
         THEN [l \in LedIds |->
                 IF Index(LedOrder, l) < Index(LedOrder, failing)
                 THEN TickLeds(levels, now)[l]
                 ELSE leds[l]]
         ELSE TickLeds(levels, now)
    \* pattern_registry.get_all_values evaluates every pattern
    /\ patterns' = [d \in WmIds |->
                      IF patterns[d].present THEN evaluated(patterns[d], now)
                      ELSE patterns[d]]
    /\ UNCHANGED <<allocVars, presetVars, manual_devices, led_follow_map,
                   device_configs, http_status, wmVars>>

\* realtime_tick in which the PWM call on device failing raises
RealtimeTick(failing) ==
    \E levels \in {tick_power_levels(now)} : TickLoops(levels, failing)

realtime_tick ==
    \E levels \in {tick_power_levels(now)} :
        \E failing \in PwmFailInputs : TickLoops(levels, failing)

\* set_manual_mode
set_manual_mode(device_id, manual) ==
    manual_devices' = IF manual THEN manual_devices \cup {device_id}
                      ELSE manual_devices \ {device_id}

----------------------------------------------------------------------------
(* Commands on the devices: routers/hardware.py, routers/settings.py,      *)
(* routers/presets.py                                                      *)

\* POST /hardware/wavemakers/{device_id}/mode
set_wavemaker_mode ==
    \E device_id \in WmIds : \E manual \in BOOLEAN :
      /\ IF ~wavemakers[device_id].registered
         THEN http_status' = 404 /\ UNCHANGED manual_devices
         ELSE set_manual_mode(device_id, manual) /\ http_status' = 200
      /\ stopped' = {}
      /\ UNCHANGED <<allocKept, presetVars, wavemakers, leds, led_follow_map,
                     patterns, device_configs, wmVars>>

\* POST /hardware/wavemakers/{device_id}/manual with one request
WavemakerManualDuty(device_id, duty) ==
    /\ IF ~wavemakers[device_id].registered
       THEN http_status' = 404 /\ UNCHANGED wavemakers
       ELSE IF device_id \notin manual_devices
       THEN http_status' = 400 /\ UNCHANGED wavemakers
       ELSE /\ wavemakers' = [wavemakers EXCEPT
                                ![device_id] = apply(wavemakers[device_id], duty)]
            /\ http_status' = 200
    /\ stopped' = {}
    /\ UNCHANGED <<allocKept, presetVars, leds, manual_devices,
                   led_follow_map, patterns, device_configs, wmVars>>

set_wavemaker_manual_duty ==
    \E device_id \in WmIds : \E duty \in ManualDutyInputs :
      WavemakerManualDuty(device_id, duty)

\* PatternRegistry.create_pattern at time t
create_pattern(device_id, config, t) ==
    [patterns EXCEPT ![device_id] =
        IF patterns[device_id].present
        THEN update_config(patterns[device_id], config)
        ELSE Pattern(config, t)]

\* POST /hardware/wavemakers/{device_id}/pattern
UpdateWavemakerPattern(device_id, pattern_config) ==
    /\ IF ~wavemakers[device_id].registered
       THEN http_status' = 404 /\ UNCHANGED patterns
       ELSE /\ patterns' = create_pattern(device_id, pattern_config, now)
            /\ http_status' = 200
    /\ stopped' = {}
    /\ UNCHANGED <<allocKept, presetVars, wavemakers, leds, manual_devices,
                   led_follow_map, device_configs, wmVars>>

update_wavemaker_pattern ==
    \E device_id \in PatternIds : \E pattern_config \in PatternInputs :
        UpdateWavemakerPattern(device_id, pattern_config)

\* the same request for every wavemaker of the model, with configurations
\* whose value depends on the time origin
PatternReplaceInputs ==
    {PatternConfig("PULSE", 4, Rat(1, 2), 0, Zero, One),
     PatternConfig("CONSTANT", 5, Rat(1, 2), 0, Zero, One)}
update_wavemaker_pattern_request ==
    \E device_id \in WmIds : \E pattern_config \in PatternReplaceInputs :
        UpdateWavemakerPattern(device_id, pattern_config)

\* POST /hardware/leds/{device_id}/mode
set_led_mode ==
    \E device_id \in LedIds : \E manual \in BOOLEAN :
      /\ IF ~leds[device_id].registered
         THEN http_status' = 404 /\ UNCHANGED manual_devices
         ELSE set_manual_mode(device_id, manual) /\ http_status' = 200
      /\ stopped' = {}
      /\ UNCHANGED <<allocKept, presetVars, wavemakers, leds, led_follow_map,
                     patterns, device_configs, wmVars>>

\* POST /hardware/leds/{device_id}/manual with one request
LedManualDuty(device_id, duty) ==
    /\ IF ~leds[device_id].registered
       THEN http_status' = 404 /\ UNCHANGED leds
       ELSE IF device_id \notin manual_devices
       THEN http_status' = 400 /\ UNCHANGED leds
       ELSE /\ leds' = [leds EXCEPT ![device_id] = apply(leds[device_id], duty)]
            /\ http_status' = 200
    /\ stopped' = {}
    /\ UNCHANGED <<allocKept, presetVars, wavemakers, manual_devices,
                   led_follow_map, patterns, device_configs, wmVars>>

set_led_manual_duty ==
    \E device_id \in LedIds : \E duty \in ManualDutyInputs :
      LedManualDuty(device_id, duty)

\* POST /hardware/leds/{device_id}/follow
set_led_follow_mode ==
    \E device_id \in LedIds : \E wavemaker_id \in FollowInputs :
      /\ IF ~leds[device_id].registered
         THEN http_status' = 404 /\ UNCHANGED <<led_follow_map, manual_devices>>
         ELSE IF wavemaker_id # NoWavemaker /\ ~wavemakers[wavemaker_id].registered
         THEN http_status' = 404 /\ UNCHANGED <<led_follow_map, manual_devices>>
         ELSE /\ led_follow_map' = [led_follow_map EXCEPT ![device_id] = wavemaker_id]
              /\ IF wavemaker_id # NoWavemaker
                 THEN set_manual_mode(device_id, FALSE)
                 ELSE UNCHANGED manual_devices
              /\ http_status' = 200
      /\ stopped' = {}
      /\ UNCHANGED <<allocKept, presetVars, wavemakers, leds, patterns,
                     device_configs, wmVars>>

\* DeviceRegistry.stop_all, called by POST /hardware/emergency_stop
stop_all ==
    /\ wavemakers' = [d \in WmIds |-> IF wavemakers[d].registered
                                      THEN stop(wavemakers[d]) ELSE wavemakers[d]]
    /\ leds' = [l \in LedIds |-> IF leds[l].registered
                                 THEN stop(leds[l]) ELSE leds[l]]
    /\ http_status' = 200
    /\ stopped' = stopped \cup {"devices"}
    /\ UNCHANGED <<allocKept, presetVars, manual_devices, led_follow_map,
                   patterns, device_configs, wmVars>>

\* POST /api/settings/hardware for a wavemaker with the default range; the
\* table of device configurations answers by identifier
create_device ==
    \E device_id \in CreateIds :
      /\ IF device_id \in device_configs
         THEN http_status' = 409 /\ UNCHANGED <<device_configs, wavemakers>>
         ELSE /\ device_configs' = device_configs \cup {device_id}
              /\ wavemakers' = [wavemakers EXCEPT ![device_id] = PWMDevice(Zero, One)]
              /\ http_status' = 200
      /\ UNCHANGED <<allocVars, presetVars, leds, manual_devices,
                     led_follow_map, patterns, wmVars>>

\* DeviceRegistry.unregister_device: the device is stopped, its handle is
\* released and its entry is deleted, a wavemaker of that id before an LED
UnregisterDevice(device_id) ==
    /\ wavemakers' =
         IF device_id \in WmIds /\ wavemakers[device_id].registered
         THEN [wavemakers EXCEPT ![device_id] = NoDevice]
         ELSE wavemakers
    /\ leds' =
         IF device_id \in WmIds /\ wavemakers[device_id].registered THEN leds
         ELSE IF device_id \in LedIds /\ leds[device_id].registered
         THEN [leds EXCEPT ![device_id] = NoDevice]
         ELSE leds

DeleteIds == {"WM1", "PUMP", "LED1"}

\* DELETE /api/settings/hardware/{device_id}: the registry first, then the
\* table of device configurations, which answers by identifier; the
\* pattern, the follow map and the manual set are left as they are
delete_device ==
    \E device_id \in DeleteIds :
      /\ UnregisterDevice(device_id)
      /\ IF device_id \in device_configs
         THEN device_configs' = device_configs \ {device_id} /\ http_status' = 200
         ELSE http_status' = 404 /\ UNCHANGED device_configs
      /\ UNCHANGED <<allocVars, presetVars, manual_devices,
                     led_follow_map, patterns, wmVars>>

\* the two assignments of PresetManager.set_active_preset for a preset the
\* store has, at time t
set_active_preset_keep_start(manager, preset_id, t) ==
    [manager EXCEPT !.active_preset_id = preset_id]
set_active_preset(manager, preset_id, t) ==
    [manager EXCEPT !.active_preset_id = preset_id, !.cycle_start_time = t]

\* POST /presets/{preset_id}/activate -> PresetManager.set_active_preset
ActivatePreset(preset_id) ==
    /\ set_mode_call = NoCall
    /\ IF ~HasPreset(preset_id)
       THEN http_status' = 404 /\ UNCHANGED presetVars
       ELSE LET manager == set_active_preset(
                               [active_preset_id |-> active_preset_id,
                                cycle_start_time |-> cycle_start_time],
                               preset_id, now)
            IN /\ active_preset_id' = manager.active_preset_id
               /\ cycle_start_time' = manager.cycle_start_time
               /\ http_status' = 200
    /\ stopped' = {}
    /\ UNCHANGED <<allocStateKept, now, wavemakers, leds, manual_devices,
                   led_follow_map, patterns, device_configs, wmVars>>

activate_preset == \E preset_id \in PresetIdInputs : ActivatePreset(preset_id)

----------------------------------------------------------------------------
(* The preset routes: routers/presets.py over services/storage.py          *)

\* how many user presets the table of the model holds at a time
MaxUserPresets == 1
\* the built-in presets have the ids 1..9 of the table that was empty
BuiltInCount == 9
\* an id no row ever has
UnknownPresetId == 99
PresetRequestIds ==
    {PulseId, UnknownPresetId}
        \cup ((BuiltInCount + 1)..(BuiltInCount + MaxUserPresets))

\* the id SQLite gives to a new row: one more than the largest there is
NextPresetId ==
    1 + (CHOOSE m \in DOMAIN presets \cup {BuiltInCount} :
            \A k \in DOMAIN presets \cup {BuiltInCount} : k <= m)

\* the body of a preset request: the fields of the preset record a client
\* sends, given being those that are not None (the description is left out
\* by the requests of the model)
default_cycle_duration_sec == 60
PresetFields == {"name", "cycle_duration_sec", "flow_curves"}
UserCurve == <<Keyframe(0, 50), Keyframe(100, 100)>>
WavemakerPresetRequest(name, cycle_duration_sec, flow_curves, given) ==
    [name |-> name, cycle_duration_sec |-> cycle_duration_sec,
     flow_curves |-> flow_curves, given |-> given]
PresetRequestInputs ==
    {WavemakerPresetRequest("Storm", c, (1 :> UserCurve), g) :
        c \in {0, 4},
        g \in {{"name"}, {"cycle_duration_sec"}, PresetFields}}

\* POST /presets
CreatePreset(data) ==
    /\ "name" \in data.given
    /\ Cardinality(DOMAIN presets) < Cardinality(DOMAIN StorePresets) + MaxUserPresets
    /\ presets' = presets @@
         (NextPresetId :>
            [name |-> data.name,
             description |-> "",
             \* data.cycle_duration_sec or 60
             cycle_duration_sec |->
                 IF "cycle_duration_sec" \in data.given
                    /\ data.cycle_duration_sec # 0
                 THEN data.cycle_duration_sec
                 ELSE default_cycle_duration_sec,
             is_built_in |-> FALSE,
             \* data.flow_curves or {}
             flow_curves |-> IF "flow_curves" \in data.given
                             THEN data.flow_curves ELSE <<>>])
    /\ http_status' = 200
    /\ UNCHANGED <<allocCore, snapVars, interpVars, triggerVars, presetVars,
                   standaloneVars,
                   wavemakers, leds, manual_devices, led_follow_map, patterns,
                   device_configs, wmVars>>

create_preset == \E data \in PresetRequestInputs : CreatePreset(data)

\* "if preset.is_built_in: return None" of Store.update_preset and the same
\* test of Store.delete_preset
RejectBuiltIn_never(preset) == FALSE
RejectBuiltIn(preset) == preset.is_built_in

\* the row after the setattr calls of Store.update_preset with the updates
\* the route collects
UpdatedPreset(preset, data) ==
    [preset EXCEPT
       !.name = IF "name" \in data.given /\ data.name # ""
                THEN data.name ELSE @,
       !.cycle_duration_sec = IF "cycle_duration_sec" \in data.given
                              THEN data.cycle_duration_sec ELSE @,
       !.flow_curves = IF "flow_curves" \in data.given
                       THEN data.flow_curves ELSE @]

\* PUT /presets/{preset_id}
UpdatePreset(preset_id, data) ==
    /\ IF ~HasPreset(preset_id) \/ RejectBuiltIn(get_preset(preset_id))
       THEN http_status' = 404 /\ presets' = presets
       ELSE /\ presets' = [presets EXCEPT
                             ![preset_id] = UpdatedPreset(@, data)]
            /\ http_status' = 200
    /\ UNCHANGED <<allocCore, snapVars, interpVars, triggerVars, presetVars,
                   standaloneVars,
                   wavemakers, leds, manual_devices, led_follow_map, patterns,
                   device_configs, wmVars>>

update_preset ==
    \E preset_id \in PresetRequestIds :
        \E data \in PresetRequestInputs : UpdatePreset(preset_id, data)

\* DELETE /presets/{preset_id}
DeletePreset(preset_id) ==
    /\ IF ~HasPreset(preset_id) \/ RejectBuiltIn(get_preset(preset_id))
       THEN http_status' = 404 /\ presets' = presets
       ELSE /\ presets' = [k \in DOMAIN presets \ {preset_id} |-> presets[k]]
            /\ http_status' = 200
    /\ UNCHANGED <<allocCore, snapVars, interpVars, triggerVars, presetVars,
                   standaloneVars,
                   wavemakers, leds, manual_devices, led_follow_map, patterns,
                   device_configs, wmVars>>

delete_preset == \E preset_id \in PresetRequestIds : DeletePreset(preset_id)

\* POST /presets/{preset_id}/activate with the ids of the preset requests
activate_preset_request ==
    \E preset_id \in PresetRequestIds : ActivatePreset(preset_id)

----------------------------------------------------------------------------
(* The scheduled tasks and the export and import of the configuration:     *)
(* routers/automation.py, routers/settings.py, services/storage.py         *)

\* no more tasks than this are created by POST /automation/scheduled
MaxTasks == 2

NoTaskDays == "none"

\* the id SQLite gives to a new row of a table whose ids are at least floor
NextRowId(ids, floor) ==
    1 + (CHOOSE m \in ids \cup {floor} : \A k \in ids \cup {floor} : k <= m)

\* a set of ids as the list of them in ascending order
RECURSIVE IdsInOrder(_)
IdsInOrder(ids) ==
    IF ids = {} THEN <<>>
    ELSE LET least == CHOOSE m \in ids : \A k \in ids : m <= k
         IN  <<least>> \o IdsInOrder(ids \ {least})

\* ScheduledTaskRow without its id
ScheduledTaskRow(name, task_type, time, enabled, preset_id, days_of_week) ==
    [name |-> name, task_type |-> task_type, time |-> time,
     enabled |-> enabled, preset_id |-> preset_id,
     days_of_week |-> days_of_week]

\* the bodies of POST /automation/scheduled: an activation every day at one
\* time, of a built-in preset or of the first preset a user creates
TaskRequestInputs ==
    {ScheduledTaskRow("Evening", "preset_activation", "18:00", enabled,
                      preset_id, NoTaskDays) :
        enabled \in BOOLEAN, preset_id \in {PulseId, BuiltInCount + 1}}

\* check_schedule_conflict for a request without days: an enabled task at
\* the same time conflicts, whatever its days
check_schedule_conflict(tasks, time) ==
    \E id \in DOMAIN tasks : tasks[id].enabled /\ tasks[id].time = time

\* what the export and import leave alone
importFrame == <<allocCore, snapVars, presetVars, wmVars, interpVars,
                 triggerVars, patternVars, telemetryVars, stopVars, automationVars,
                 manual_devices,
                 patterns>>

\* POST /automation/scheduled
CreateScheduledTask(task_req) ==
    /\ IF task_req.enabled /\ check_schedule_conflict(scheduled_tasks,
                                                      task_req.time)
       THEN /\ http_status' = 409
            /\ scheduled_tasks' = scheduled_tasks
       ELSE /\ scheduled_tasks' =
                 (NextRowId(DOMAIN scheduled_tasks, 0) :> task_req)
                     @@ scheduled_tasks
            /\ http_status' = 200
    /\ UNCHANGED <<importFrame, presets, deviceVars, export_data, wavemakers,
                   leds, led_follow_map, device_configs>>

create_scheduled_task ==
    \E task_req \in TaskRequestInputs :
        /\ Cardinality(DOMAIN scheduled_tasks) < MaxTasks
        /\ CreateScheduledTask(task_req)

\* the order in which the table of device configurations is listed
DeviceOrder == <<"WM1", "PUMP", "LED1">>

\* the body of GET /api/settings/export for the tables given: every row
\* with its id, the presets and the tasks in the order of their ids (the
\* rows of the model do not differ in the name or the time they are ordered
\* by)
ExportData(rows, preset_table, tasks) ==
    [devices |->
        [i \in DOMAIN SelectSeq(DeviceOrder, LAMBDA d : d \in DOMAIN rows) |->
            [device_id |->
                 SelectSeq(DeviceOrder, LAMBDA d : d \in DOMAIN rows)[i],
             row |-> rows[SelectSeq(DeviceOrder,
                                    LAMBDA d : d \in DOMAIN rows)[i]]]],
     presets |->
        [i \in DOMAIN IdsInOrder(DOMAIN preset_table) |->
            [id |-> IdsInOrder(DOMAIN preset_table)[i],
             preset |-> preset_table[IdsInOrder(DOMAIN preset_table)[i]]]],
     scheduled_tasks |->
        [i \in DOMAIN IdsInOrder(DOMAIN tasks) |->
            [id |-> IdsInOrder(DOMAIN tasks)[i],
             task |-> tasks[IdsInOrder(DOMAIN tasks)[i]]]]]

\* GET /api/settings/export
export_config ==
    /\ export_data' = ExportData(device_rows, presets, scheduled_tasks)
    /\ http_status' = 200
    /\ UNCHANGED <<importFrame, presets, deviceVars, scheduled_tasks,
                   wavemakers, leds, led_follow_map, device_configs>>

\* the loop of import_config over the devices: [s, rows] with s the
\* [registry, hs] it leaves. A device the table has is updated and
\* reloaded, unless the update raises (the body carries device_id, which
\* is also passed by position): then the device is left as it is and the
\* error is recorded; another device is stored and registered
RECURSIVE ImportDevices(_, _, _, _)
ImportDevices(s, rows, devices, update_raises) ==
    IF devices = <<>> THEN [s |-> s, rows |-> rows]
    ELSE LET device_id == Head(devices).device_id
             row == Head(devices).row
         IN  IF device_id \in DOMAIN rows
             THEN IF update_raises
                  THEN ImportDevices(s, rows, Tail(devices), update_raises)
                  ELSE ImportDevices(
                           reload_device(s.registry, s.hs, device_id,
                                         row.config, row.device_type),
                           [rows EXCEPT ![device_id] = row],
                           Tail(devices), update_raises)
             ELSE ImportDevices(
                      register_device(s.registry, s.hs, device_id,
                                      row.config, row.device_type),
                      (device_id :> row) @@ rows,
                      Tail(devices), update_raises)

\* the loop of import_config over the presets: the built-in ones are
\* skipped, every other one is stored as a new row
RECURSIVE ImportPresets(_, _)
ImportPresets(preset_table, exported) ==
    IF exported = <<>> THEN preset_table
    ELSE IF Head(exported).preset.is_built_in
    THEN ImportPresets(preset_table, Tail(exported))
    ELSE LET preset_data == Head(exported).preset
             preset ==
                 [name |-> preset_data.name,
                  description |-> preset_data.description,
                  \* preset_data.get('cycle_duration_sec') or 60
                  cycle_duration_sec |->
                      IF preset_data.cycle_duration_sec # 0
                      THEN preset_data.cycle_duration_sec
                      ELSE default_cycle_duration_sec,
                  is_built_in |-> FALSE,
                  flow_curves |-> preset_data.flow_curves]
         IN  ImportPresets(
                 (NextRowId(DOMAIN preset_table, BuiltInCount) :> preset)
                     @@ preset_table,
                 Tail(exported))

\* the loop of import_config over the tasks: each is stored as a new row,
\* with the preset_id of the export
RECURSIVE ImportTasks(_, _)
ImportTasks(tasks, exported) ==
    IF exported = <<>> THEN tasks
    ELSE ImportTasks(
             (NextRowId(DOMAIN tasks, 0) :> Head(exported).task) @@ tasks,
             Tail(exported))

\* the last loop of import_config: set_led_follow for the LED rows that
\* follow a wavemaker
ImportedFollow(rows, follow_map) ==
    [l \in LedIds |->
        IF /\ l \in DOMAIN rows
           /\ rows[l].device_type = "LED"
           /\ rows[l].follow_device_id # NoWavemaker
        THEN rows[l].follow_device_id ELSE follow_map[l]]

\* POST /api/settings/import with the body config_data
ImportConfig(config_data, update_raises) ==
    LET imported == ImportDevices(DevicesNow, device_rows,
                                  config_data.devices, update_raises)
    IN  /\ registry' = imported.s.registry
        /\ hw_handles' = imported.s.hs.handles
        /\ hw_log' = imported.s.hs.log
        /\ device_rows' = imported.rows
        /\ wavemakers' = LoopDevices(WmIds, wavemakers, registry.wavemakers,
                                     imported.s.registry.wavemakers)
        /\ leds' = LoopDevices(LedIds, leds, registry.leds,
                               imported.s.registry.leds)
        /\ device_configs' = device_configs \cup DOMAIN imported.rows
        /\ presets' = ImportPresets(presets, config_data.presets)
        /\ scheduled_tasks' = ImportTasks(scheduled_tasks,
                                          config_data.scheduled_tasks)
        /\ led_follow_map' = ImportedFollow(imported.rows, led_follow_map)
        /\ http_status' = 200
        /\ UNCHANGED <<importFrame, export_data>>

\* the user presets of a table
UserPresetIds(preset_table) ==
    {id \in DOMAIN preset_table : ~preset_table[id].is_built_in}

\* the import of the last export, into tables that have not grown beyond
\* the bounds of the model
import_config ==
    \E update_raises \in BOOLEAN :
        /\ Cardinality(UserPresetIds(presets)) <= MaxUserPresets
        /\ Cardinality(DOMAIN scheduled_tasks) <= MaxTasks
        /\ update_raises
             \/ Len(hw_handles) + Len(export_data.devices) <= MaxHandles
        /\ ImportConfig(export_data, update_raises)

\* the bodies of POST /api/settings/import a client writes itself: one
\* preset whose curve asks for 150 percent
ImportInputs ==
    {[devices |-> <<>>,
      presets |-> <<[id |-> BuiltInCount + 1,
                     preset |-> [name |-> "Surge", description |-> "",
                                 cycle_duration_sec |-> 4,
                                 is_built_in |-> FALSE,
                                 flow_curves |->
                                     (1 :> <<Keyframe(0, 150),
                                             Keyframe(100, 150)>>)]]>>,
      scheduled_tasks |-> <<>>]}

import_config_request ==
    \E config_data \in ImportInputs :
        /\ Cardinality(UserPresetIds(presets)) < MaxUserPresets
        /\ ImportConfig(config_data, TRUE)

\* no task is stored and nothing has been exported
InitImport ==
    /\ scheduled_tasks = <<>>
    /\ export_data = ExportData(<<>>, <<>>, <<>>)

----------------------------------------------------------------------------
(* The clock *)

\* time.time() moves on
Advance ==
    /\ now + ClockStep <= MaxNow
    /\ now' = now + ClockStep
    /\ UNCHANGED <<allocState, hwVars>>

----------------------------------------------------------------------------
(* The six-channel wavemaker manager: services/wavemaker_manager.py,       *)
(* routers/wavemakers.py                                                   *)

ChannelIds == 0..5
\* Channel.pulse_period
pulse_period == 10
\* the requests a client sends to PUT /wavemakers/{channel_id}
ChannelIdInputs == {0}
ModeInputs == {"constant", "pulse"}
TargetInputs == {50}
Unset == "unset"

\* Channel.__init__
Channel ==
    [mode |-> "off", target_power_pct |-> 0, current_duty |-> Zero,
     pulse_on_time |-> 0, pulse_duty_ratio |-> Rat(6, 10)]

\* Channel._compute_duty_from_mode for the modes off, constant and pulse
compute_duty_from_mode(channel, t_now) ==
    CASE channel.mode = "off" -> Zero
      [] channel.mode = "constant" -> Rat(channel.target_power_pct, 100)
      [] channel.mode = "pulse" ->
           LET time_in_cycle == (t_now - channel.pulse_on_time) % pulse_period
               on_duration == RatMul(Rat(pulse_period, 1), channel.pulse_duty_ratio)
           IN IF RatLt(Rat(time_in_cycle, 1), on_duration)
              THEN Rat(channel.target_power_pct, 100)
              ELSE Zero

\* Channel.update_pwm: the duty is recorded on the channel
update_pwm(channel, t_now) ==
    [channel EXCEPT !.current_duty = compute_duty_from_mode(channel, t_now)]

\* WavemakerHAL.set_channel_pwm: the duty written to the PWM controller
set_channel_pwm(duty) == RatMax(Zero, RatMin(One, duty))

\* Channel.set_mode(mode, target_pct) at time t
set_mode(channel, mode, target_pct, t) ==
    [channel EXCEPT !.mode = mode,
                    !.target_power_pct = IF target_pct < 0 THEN 0
                                         ELSE IF target_pct > 100 THEN 100
                                         ELSE target_pct,
                    !.pulse_on_time = IF mode = "pulse" THEN t
                                      ELSE channel.pulse_on_time]

\* WavemakerManager.apply_preset_power_levels with the levels the preset
\* manager returns
apply_preset_power_levels(chs, power_levels) ==
    [c \in ChannelIds |->
       IF (c + 1) \in DOMAIN power_levels
       THEN [chs[c] EXCEPT !.mode = "constant",
                           !.target_power_pct = IntPart(power_levels[c + 1])]
       ELSE chs[c]]

\* the channel whose PWM write raises during a run of the control loop,
\* NoChannel if none does
NoChannel == -1
ChannelFailInputs == {NoChannel, 0}

\* WavemakerManager.update_all in which the PWM write of channel failing
\* raises: update_pwm has recorded the duty of that channel before the
\* write, the channels after it are not reached and the exception leaves
\* wavemaker_control_loop
UpdateAll(failing) ==
    IF ZeroDivisionError
    THEN \* apply_preset_power_levels raises before any channel is touched
         /\ job_error' = TRUE
         /\ UNCHANGED <<allocVars, presetVars, rtVars, channels, pca_duty,
                        set_mode_call>>
    ELSE
    \E power_levels \in {get_current_power_levels(now)} :
    LET chs == IF HasActivePreset
               THEN apply_preset_power_levels(channels, power_levels)
               ELSE channels
    IN /\ channels' = [c \in ChannelIds |->
                         LET channel == chs[c] IN
                         IF failing = NoChannel \/ c <= failing
                         THEN update_pwm(channel, now)
                         ELSE channel]
       /\ pca_duty' = [c \in ChannelIds |->
                         IF failing = NoChannel \/ c < failing
                         THEN set_channel_pwm(channels'[c].current_duty)
                         ELSE pca_duty[c]]
       /\ job_error' = (failing # NoChannel)
       /\ UNCHANGED <<allocVars, presetVars, rtVars, set_mode_call>>

\* WavemakerManager.update_all, the 20 Hz control loop, run by the scheduler
\* in a thread of its executor
update_all == \E failing \in ChannelFailInputs : UpdateAll(failing)

Clamp100(target_pct) == IF target_pct < 0 THEN 0
                        ELSE IF target_pct > 100 THEN 100
                        ELSE target_pct

\* PUT /wavemakers/{channel_id} -> WavemakerManager.update_channel, up to and
\* with the first assignment of Channel.set_mode (self.mode).  The handler
\* runs on the event loop, where no other handler runs before it returns.
update_wavemaker ==
    /\ set_mode_call = NoCall
    /\ \E channel_id \in ChannelIdInputs :
        \E mode \in ModeInputs \cup {Unset} : \E target_pct \in TargetInputs \cup {-1} :
        /\ mode # Unset \/ target_pct # -1
        /\ IF channel_id \notin ChannelIds
           THEN http_status' = 404 /\ UNCHANGED <<channels, set_mode_call>>
           ELSE LET channel == channels[channel_id]
                    new_mode == IF mode # Unset THEN mode ELSE channel.mode
                    new_target == IF target_pct # -1 THEN target_pct
                                  ELSE channel.target_power_pct
                IN /\ channels' = [channels EXCEPT ![channel_id].mode = new_mode]
                   /\ set_mode_call' =
                        [step |-> "target_power_pct", channel_id |-> channel_id,
                         mode |-> new_mode, target_pct |-> new_target,
                         before |-> [mode |-> channel.mode,
                                     target_power_pct |-> channel.target_power_pct]]
                   /\ UNCHANGED http_status
    /\ stopped' = {}
    /\ UNCHANGED <<allocKept, presetVars, wavemakers, leds, manual_devices,
                   led_follow_map, patterns, device_configs, pca_duty, job_error>>

\* Channel.set_mode: self.target_power_pct = max(0, min(100, target_pct))
set_mode_target ==
    /\ set_mode_call.step = "target_power_pct"
    /\ channels' = [channels EXCEPT ![set_mode_call.channel_id].target_power_pct =
                                      Clamp100(set_mode_call.target_pct)]
    /\ set_mode_call' = [set_mode_call EXCEPT !.step = "pulse_on_time"]
    /\ UNCHANGED <<allocVars, presetVars, rtVars, pca_duty, job_error>>

\* Channel.set_mode: self.pulse_on_time = time.time() if the mode is pulse,
\* and the response of the handler
set_mode_return ==
    /\ set_mode_call.step = "pulse_on_time"
    /\ channels' = IF set_mode_call.mode = "pulse"
                   THEN [channels EXCEPT ![set_mode_call.channel_id].pulse_on_time = now]
                   ELSE channels
    /\ set_mode_call' = NoCall
    /\ http_status' = 200
    /\ UNCHANGED <<allocVars, presetVars, wavemakers, leds, manual_devices,
                   led_follow_map, patterns, device_configs, pca_duty, job_error>>

\* WavemakerManager.emergency_stop, called by POST /wavemakers/emergency-stop
emergency_stop ==
    /\ set_mode_call = NoCall
    /\ channels' = [c \in ChannelIds |-> set_mode(channels[c], "off", 0, now)]
    /\ pca_duty' = [c \in ChannelIds |-> set_channel_pwm(Zero)]
    /\ http_status' = 200
    /\ stopped' = stopped \cup {"channels"}
    /\ UNCHANGED <<allocKept, presetVars, wavemakers, leds, manual_devices,
                   led_follow_map, patterns, device_configs, job_error,
                   set_mode_call>>

----------------------------------------------------------------------------
(* The telemetry of the wavemaker manager:                                 *)
(* WavemakerManager.sample_all_power (services/wavemaker_manager.py)       *)

\* the clock of this part counts quarters of a second; it starts later
\* than half a second after the epoch and ends at MaxTelemetryTime
MaxTelemetryTime == 14
\* the length of a history (deque(maxlen=900) in the code)
HistoryMaxlen == 3
\* 0.5 s in quarters of a second
telemetry_min_interval == 2
\* a reading of time.time() differs from the one before by one of these:
\* the wall clock may be set back
ClockJumps == {-1, 1, 2, 3}

\* what the telemetry leaves alone
telemetryFrame == <<programVars, patternVars, deviceVars, importVars, stopVars,
                    automationVars>>

\* "if current_time - self.last_telemetry_time < 0.5: return"
Throttled_never(current_time, last_time) == FALSE
Throttled(current_time, last_time) ==
    current_time - last_time < telemetry_min_interval

\* deque.append with maxlen: the oldest point leaves a full deque
deque_append(points, point) ==
    IF Len(points) < HistoryMaxlen THEN Append(points, point)
    ELSE Append(Tail(points), point)

\* WavemakerHistoryPoint of a channel (the power read from the sensor is
\* left out)
WavemakerHistoryPoint(t, channel) ==
    [t |-> t, duty |-> channel.current_duty,
     pulse_duty_ratio |-> channel.pulse_duty_ratio]

\* WavemakerManager.sample_all_power at the present reading of the clock
sample_all_power ==
    /\ IF Throttled(telemetry_time, last_telemetry_time)
       THEN UNCHANGED <<last_telemetry_time, history>>
       ELSE /\ last_telemetry_time' = telemetry_time
            /\ history' =
                 [c \in ChannelIds |->
                     deque_append(history[c],
                         WavemakerHistoryPoint(telemetry_time, channels[c]))]
    /\ UNCHANGED <<telemetryFrame, telemetry_time>>

\* time.time() is read again
telemetry_time_passes ==
    \E jump \in ClockJumps :
        /\ telemetry_time + jump >= 0
        /\ telemetry_time + jump <= MaxTelemetryTime
        /\ telemetry_time' = telemetry_time + jump
        /\ UNCHANGED <<telemetryFrame, last_telemetry_time, history>>

\* WavemakerManager.__init__, and a clock far from the epoch
InitTelemetry ==
    /\ telemetry_time = telemetry_min_interval + 1
    /\ last_telemetry_time = 0
    /\ history = [c \in ChannelIds |-> <<>>]

----------------------------------------------------------------------------
(* The feed mode of the automation service: services/automation.py,        *)
(* routers/automation.py and the 1-second trigger of services/scheduler.py *)

\* the last second of the clock that is explored
MaxFeedNow == 604
\* the times at which a client asks for feed mode
FeedStartTimes == {0, 2}
\* AutomationService.feed_mode_duration_minutes
feed_mode_duration_minutes == 10
SecondsPerMinute == 60

\* what the automation service leaves unchanged
automationFrame == <<allocCore, snapVars, wmVars, interpVars, triggerVars,
                     presets, patternVars, deviceVars, telemetryVars, stopVars,
                     wavemakers, leds, manual_devices, led_follow_map,
                     patterns, device_configs>>
taskVars == <<auto_now, last_executed_tasks, automation_started,
              task_check_pc, task_executions>>

\* Store.get_preset_by_name: the id of the first row of that name, NoPreset
\* if there is none
get_preset_by_name(name) ==
    LET ids == {id \in DOMAIN presets : presets[id].name = name}
    IN  IF ids = {} THEN NoPreset
        ELSE CHOOSE id \in ids : \A other \in ids : id <= other

\* PresetManager.get_active_preset, as an id
get_active_preset == IF HasActivePreset THEN active_preset_id ELSE NoPreset

\* PresetManager.set_active_preset(preset_id), whose answer the automation
\* service does not look at
SetActivePreset(preset_id) ==
    IF ~HasPreset(preset_id) THEN UNCHANGED presetVars
    ELSE LET manager == set_active_preset(
                            [active_preset_id |-> active_preset_id,
                             cycle_start_time |-> cycle_start_time],
                            preset_id, now)
         IN /\ active_preset_id' = manager.active_preset_id
            /\ cycle_start_time' = manager.cycle_start_time

\* AutomationService.start_feed_mode behind POST /feed/start
StartFeedMode ==
    /\ IF feed_mode_active
       THEN /\ feed_result' = "Feed mode already active"
            /\ http_status' = 400
            /\ UNCHANGED <<presetVars, feed_mode_active, feed_mode_start_time,
                           preset_before_feed, feed_started_with>>
       ELSE IF get_preset_by_name("Feed Mode") = NoPreset
       THEN /\ feed_result' = "Feed Mode preset not found"
            /\ http_status' = 400
            /\ UNCHANGED <<presetVars, feed_mode_active, feed_mode_start_time,
                           preset_before_feed, feed_started_with>>
       ELSE /\ preset_before_feed' = get_active_preset
            /\ SetActivePreset(get_preset_by_name("Feed Mode"))
            /\ feed_mode_active' = TRUE
            /\ feed_mode_start_time' = auto_now
            /\ feed_result' = "Feed mode activated"
            /\ http_status' = 200
            /\ feed_started_with' = get_active_preset
    /\ UNCHANGED <<automationFrame, importVars, taskVars>>

start_feed_mode == StartFeedMode

\* the same at the times at which a client asks
start_feed_mode_request == auto_now \in FeedStartTimes /\ StartFeedMode

\* AutomationService.stop_feed_mode(restore_preset) once feed mode is known
\* to be active
StopActiveFeedMode(restore_preset) ==
    /\ feed_mode_active' = FALSE
    /\ IF restore_preset /\ preset_before_feed # NoPreset
       THEN SetActivePreset(preset_before_feed)
       ELSE UNCHANGED presetVars
    /\ feed_mode_start_time' = NoTime
    /\ preset_before_feed' = NoPreset
    /\ feed_result' = "Feed mode stopped"

\* POST /feed/stop
stop_feed_mode ==
    /\ IF ~feed_mode_active
       THEN /\ feed_result' = "Feed mode not active"
            /\ http_status' = 400
            /\ UNCHANGED <<presetVars, feed_mode_active, feed_mode_start_time,
                           preset_before_feed>>
       ELSE StopActiveFeedMode(TRUE) /\ http_status' = 200
    /\ UNCHANGED <<automationFrame, importVars, taskVars, feed_started_with>>

\* "if elapsed >= duration_seconds"
TimedOut_later(elapsed, duration_seconds) == elapsed > duration_seconds
TimedOut(elapsed, duration_seconds) == elapsed >= duration_seconds

\* AutomationService.check_feed_mode_timeout at time t
CheckFeedModeTimeout(t) ==
    IF ~feed_mode_active \/ feed_mode_start_time = NoTime
    THEN UNCHANGED <<presetVars, feed_mode_active, feed_mode_start_time,
                     preset_before_feed, feed_result>>
    ELSE LET elapsed == t - feed_mode_start_time
             duration_seconds == feed_mode_duration_minutes * SecondsPerMinute
         IN  IF TimedOut(elapsed, duration_seconds)
             THEN StopActiveFeedMode(TRUE)
             ELSE UNCHANGED <<presetVars, feed_mode_active,
                              feed_mode_start_time, preset_before_feed,
                              feed_result>>

\* the trigger of feed_mode_timeout_check: a second has passed since its
\* last firing and the check is made
feed_mode_timeout_check ==
    /\ auto_now < MaxFeedNow
    /\ auto_now' = auto_now + 1
    /\ CheckFeedModeTimeout(auto_now')
    /\ UNCHANGED <<automationFrame, importVars, http_status,
                   last_executed_tasks, automation_started, task_check_pc,
                   task_executions, feed_started_with>>

\* AutomationService.__init__
InitAutomation ==
    /\ feed_mode_active = FALSE
    /\ feed_mode_start_time = NoTime
    /\ preset_before_feed = NoPreset
    /\ feed_result = "none"
    /\ auto_now = 0
    /\ last_executed_tasks = <<>>
    /\ automation_started = FALSE
    /\ task_check_pc = "idle"
    /\ feed_started_with = NoPreset
    /\ task_executions = <<>>

----------------------------------------------------------------------------
(* The scheduled tasks of the automation service: services/automation.py   *)
(* check_and_execute_tasks and the 60-second trigger of                    *)
(* services/scheduler.py                                                   *)

\* the firings that are explored end this many seconds after midnight
MaxAfterMidnight == 150
\* the first firing of the trigger, in seconds before that midnight
FirstFiringOffsets == {90, 80, 70, 60, 50, 40}
\* seconds between two firings of automation_task_check
check_interval_s == 60
\* "if time_diff_seconds <= 30"
window_s == 30
\* "(now - last_exec).total_seconds() < 60"
duplicate_s == 60
\* datetime: the calendar
SecondsPerHour == 60 * SecondsPerMinute
SecondsPerDay == 24 * SecondsPerHour
DaysPerWeek == 7

\* the clock starts on a Monday: datetime.weekday() of a time
weekday(t) == (t \div SecondsPerDay) % DaysPerWeek
\* task.time.split(':') as hour and minute, for the times of the model
TaskClock(time) ==
    CASE time = "00:00" -> [hour |-> 0, minute |-> 0]
      [] time = "00:01" -> [hour |-> 0, minute |-> 1]
      [] time = "18:00" -> [hour |-> 18, minute |-> 0]
\* now.replace(hour=..., minute=..., second=0, microsecond=0)
task_datetime(t, time) ==
    (t \div SecondsPerDay) * SecondsPerDay
        + TaskClock(time).hour * SecondsPerHour
        + TaskClock(time).minute * SecondsPerMinute

abs(x) == IF x < 0 THEN -x ELSE x

\* json.loads of the day lists of the model
json_loads(days_of_week) ==
    CASE days_of_week = "[0]" -> {0}
      [] days_of_week = "[1]" -> {1}

\* "if time_diff_seconds <= 30"
InWindow(time_diff_seconds) == time_diff_seconds <= window_s

\* AutomationService._execute_task on the preset manager m
execute_task(m, task, t) ==
    IF task.task_type = "preset_activation" /\ task.preset_id # NoPreset
       /\ HasPreset(task.preset_id)
    THEN set_active_preset(m, task.preset_id, t)
    ELSE m

\* the loop of check_and_execute_tasks over the tasks ids, at time t, with
\* st the preset manager, last_executed_tasks and the executions so far
RECURSIVE TaskLoop(_, _, _)
TaskLoop(ids, t, st) ==
    IF ids = <<>> THEN st
    ELSE LET id == Head(ids)
             task == scheduled_tasks[id]
             today == weekday(t)
             time_diff_seconds == abs(t - task_datetime(t, task.time))
         IN  IF ~task.enabled THEN TaskLoop(Tail(ids), t, st)
             ELSE IF task.days_of_week # NoTaskDays
                     /\ today \notin json_loads(task.days_of_week)
             THEN TaskLoop(Tail(ids), t, st)
             ELSE IF ~InWindow(time_diff_seconds) THEN TaskLoop(Tail(ids), t, st)
             ELSE IF id \in DOMAIN st.last /\ t - st.last[id] < duplicate_s
             THEN TaskLoop(Tail(ids), t, st)
             ELSE TaskLoop(Tail(ids), t,
                    [m |-> execute_task(st.m, task, now),
                     last |-> [k \in DOMAIN st.last \cup {id} |->
                                 IF k = id THEN t ELSE st.last[k]],
                     done |-> [k \in DOMAIN st.done \cup {id} |->
                                 IF k = id
                                 THEN (IF id \in DOMAIN st.done
                                       THEN Append(st.done[id], t) ELSE <<t>>)
                                 ELSE st.done[k]]])

\* the bodies of POST /automation/scheduled for a task at or after midnight
NightTaskInputs ==
    {ScheduledTaskRow("Night", "preset_activation", time, TRUE, PulseId, days) :
        time \in {"00:00", "00:01"}, days \in {NoTaskDays, "[1]", "[0]"}}

\* POST /automation/scheduled before the trigger first fires
create_night_task ==
    \E task_req \in NightTaskInputs :
        /\ ~automation_started
        /\ Cardinality(DOMAIN scheduled_tasks) < MaxTasks
        /\ CreateScheduledTask(task_req)

\* the trigger of automation_task_check fires, the first time at some
\* second before midnight and then every 60 seconds, and
\* check_and_execute_tasks looks at feed_mode_active
automation_task_check ==
    /\ task_check_pc = "idle"
    /\ \E t \in (IF automation_started THEN {auto_now + check_interval_s}
                 ELSE {SecondsPerDay - offset : offset \in FirstFiringOffsets}) :
         /\ t <= SecondsPerDay + MaxAfterMidnight
         /\ auto_now' = t
    /\ automation_started' = TRUE
    /\ task_check_pc' = IF feed_mode_active THEN "idle" ELSE "tasks"
    /\ UNCHANGED <<automationFrame, importVars, presetVars, http_status,
                   feed_mode_active, feed_mode_start_time, preset_before_feed,
                   feed_result, last_executed_tasks, feed_started_with,
                   task_executions>>

\* the rest of check_and_execute_tasks, in the thread of the scheduler
check_and_execute_tasks ==
    /\ task_check_pc = "tasks"
    /\ LET st == TaskLoop(IdsInOrder(DOMAIN scheduled_tasks), auto_now,
                          [m |-> [active_preset_id |-> active_preset_id,
                                  cycle_start_time |-> cycle_start_time],
                           last |-> last_executed_tasks,
                           done |-> task_executions])
       IN /\ active_preset_id' = st.m.active_preset_id
          /\ cycle_start_time' = st.m.cycle_start_time
          /\ last_executed_tasks' = st.last
          /\ task_executions' = st.done
    /\ task_check_pc' = "idle"
    /\ UNCHANGED <<automationFrame, importVars, http_status, feed_mode_active,
                   feed_mode_start_time, preset_before_feed, feed_result,
                   auto_now, automation_started, feed_started_with>>

----------------------------------------------------------------------------
(* The periodic triggers: JobScheduler.start (services/scheduler.py) and   *)
(* start_hw_scheduler, stop_hw_scheduler (hw_scheduler/realtime_loop.py).  *)
(* Both schedulers are AsyncIOSchedulers of APScheduler; every job is      *)
(* added with the interval trigger and the default options of a job.       *)

JobSchedulerTriggers ==
    {"sample_job", "wavemaker_control_loop", "wavemaker_telemetry_loop",
     "automation_task_check", "feed_mode_timeout_check"}
HwSchedulerTriggers == {"realtime_control"}
TriggerIds == JobSchedulerTriggers \cup HwSchedulerTriggers

\* the jobs are declared with the number of concurrent instances allowed
\* raised to 2
MaxInstances_two(trigger) == 2
\* the jobs are declared without max_instances: one instance at a time
MaxInstances(trigger) == 1

NoFiring == [trigger |-> "none", outcome |-> "none"]

\* the scheduler of the trigger is running: JobScheduler.sched is started at
\* startup and nothing shuts it down
SchedulerRunning(trigger) ==
    IF trigger \in HwSchedulerTriggers THEN hw_scheduler_running ELSE TRUE

InitTriggers ==
    /\ instances = [t \in TriggerIds |-> 0]
    /\ hw_scheduler_running = TRUE
    /\ stop_returned = FALSE
    /\ last_firing = NoFiring

\* the interval of a trigger elapses: its callback starts, unless as many
\* instances of it are in progress as are allowed; the firing is skipped then
trigger_fires ==
    \E t \in TriggerIds :
      /\ SchedulerRunning(t)
      /\ IF instances[t] < MaxInstances(t)
         THEN /\ instances' = [instances EXCEPT ![t] = @ + 1]
              /\ last_firing' = [trigger |-> t, outcome |-> "started"]
         ELSE /\ instances' = instances
              /\ last_firing' = [trigger |-> t, outcome |-> "skipped"]
      /\ UNCHANGED <<allocCore, snapVars, presetVars, rtVars, wmVars, interpVars,
                   presets, standaloneVars,
                     hw_scheduler_running, stop_returned>>

\* a callback in progress returns
callback_returns ==
    \E t \in TriggerIds :
      /\ instances[t] > 0
      /\ instances' = [instances EXCEPT ![t] = @ - 1]
      /\ UNCHANGED <<allocCore, snapVars, presetVars, rtVars, wmVars, interpVars,
                   presets, standaloneVars,
                     hw_scheduler_running, stop_returned, last_firing>>

\* stop_hw_scheduler: hw_scheduler.shutdown() if it is running
stop_hw_scheduler ==
    /\ hw_scheduler_running' = FALSE
    /\ stop_returned' = TRUE
    /\ UNCHANGED <<allocCore, snapVars, presetVars, rtVars, wmVars, interpVars,
                   presets, standaloneVars,
                   instances, last_firing>>

----------------------------------------------------------------------------
(* Initial state of the hardware control: main.py startup                  *)

InitHardware ==
    /\ presets = StorePresets
    /\ active_preset_id = NoPreset
    /\ cycle_start_time = 0
    /\ wavemakers = [d \in WmIds |-> IF d = "WM1" THEN PWMDevice(Rat(5, 100), One)
                                     ELSE NoDevice]
    /\ leds = [l \in LedIds |-> PWMDevice(Zero, One)]
    /\ manual_devices = {}
    /\ led_follow_map = [l \in LedIds |-> "WM1"]
    /\ patterns = [d \in WmIds |-> IF d = "WM1" THEN Pattern(default_pattern, 0)
                                   ELSE NoPattern]
    /\ device_configs = {}
    /\ http_status = NoResponse
    /\ channels = [c \in ChannelIds |-> Channel]
    /\ pca_duty = [c \in ChannelIds |-> Zero]
    /\ job_error = FALSE
    /\ set_mode_call = NoCall

\* no call of _interpolate_power of its own is in progress
InitNoCall ==
    /\ interp_pc = "done"
    /\ curve_arg = <<>>
    /\ time_pos_arg = Zero
    /\ power_result = NoResult

\* the generators evaluated on their own are not in use
InitPatternIdle ==
    /\ generators = [g \in GeneratorIds |-> Pattern(default_pattern, 0)]
    /\ pattern_t = 0
    /\ pattern_result = [g \in GeneratorIds |-> NoValue]

\* no emergency stop has been made
InitStop == stopped = {}

InitStandalone ==
    /\ InitPatternIdle /\ InitDevices /\ InitImport /\ InitTelemetry
    /\ InitStop /\ InitAutomation

Init ==
    InitAllocator /\ InitHardware /\ InitNoCall /\ InitTriggers /\ InitStandalone

----------------------------------------------------------------------------
(* PresetManager._interpolate_power called on its own                      *)
(* (services/preset_manager.py): the arguments are drawn from every curve  *)
(* of at most MaxKeyframes keyframes over KeyframeTimes and KeyframePowers, *)
(* in every order of the list, together with a built-in curve, and from    *)
(* TimePosInputs.                                                          *)

MaxKeyframes == 3
KeyframeTimes == {0, 50, 100}
KeyframePowers == {0, 100}
KeyframeInputs == {Keyframe(t, p) : t \in KeyframeTimes, p \in KeyframePowers}
BoundedCurves ==
    UNION {[1..n -> KeyframeInputs] : n \in 0..MaxKeyframes}
CurveInputs == BoundedCurves \cup {PulseCurve(1)}
TimePosInputs == {Rat(0, 1), Rat(10, 1), Rat(25, 1), Rat(50, 1),
                  Rat(75, 1), Rat(100, 1)}

InitInterpolate ==
    /\ InitAllocator
    /\ InitHardware
    /\ InitTriggers
    /\ InitStandalone
    /\ interp_pc = "call"
    /\ curve_arg \in CurveInputs
    /\ time_pos_arg \in TimePosInputs
    /\ power_result = NoResult

\* the call returns
interpolate_return ==
    /\ interp_pc = "call"
    /\ interp_pc' = "done"
    /\ power_result' = interpolate_power(curve_arg, time_pos_arg)
    /\ UNCHANGED <<allocCore, snapVars, presetVars, rtVars, wmVars, triggerVars,
                   presets, standaloneVars, curve_arg, time_pos_arg>>

----------------------------------------------------------------------------
(* Specifications                                                          *)

SpecAllocator == Init /\ [][NextAllocator]_vars

NextRealtime ==
    \/ realtime_tick
    \/ set_wavemaker_mode
    \/ set_wavemaker_manual_duty
    \/ update_wavemaker_pattern
    \/ set_led_mode
    \/ set_led_manual_duty
    \/ set_led_follow_mode
    \/ stop_all
    \/ create_device
    \/ activate_preset
    \/ Advance

SpecRealtime == Init /\ [][NextRealtime]_vars

NextWavemaker ==
    \/ update_all
    \/ update_wavemaker
    \/ set_mode_target
    \/ set_mode_return
    \/ emergency_stop
    \/ activate_preset
    \/ Advance

SpecWavemaker == Init /\ [][NextWavemaker]_vars

\* the preset routes with the control loop of the wavemaker manager
NextPresets ==
    \/ create_preset
    \/ update_preset
    \/ delete_preset
    \/ activate_preset_request
    \/ update_all
    \/ Advance

SpecPresets == Init /\ [][NextPresets]_vars

\* the same routes with the real-time loop
NextPresetTick ==
    \/ create_preset
    \/ update_preset
    \/ delete_preset
    \/ activate_preset_request
    \/ realtime_tick
    \/ Advance

SpecPresetTick == Init /\ [][NextPresetTick]_vars

\* the pattern requests with the real-time loop
NextPatternUpdate ==
    \/ update_wavemaker_pattern_request
    \/ create_device
    \/ realtime_tick
    \/ Advance

SpecPatternUpdate == Init /\ [][NextPatternUpdate]_vars

\* the routes that configure the devices, with the one that sets the mode
\* of a wavemaker
NextDevices ==
    \/ update_wavemaker_settings
    \/ create_device_request
    \/ update_device
    \/ set_wavemaker_mode

SpecDevices == Init /\ [][NextDevices]_vars

\* the export and the import of the configuration, with the routes that
\* create what is exported
NextImport ==
    \/ create_preset
    \/ create_scheduled_task
    \/ create_device_request
    \/ export_config
    \/ import_config

SpecImport == Init /\ [][NextImport]_vars

\* the telemetry of the wavemaker manager, called at any time
NextTelemetry ==
    \/ sample_all_power
    \/ telemetry_time_passes

SpecTelemetry == Init /\ [][NextTelemetry]_vars

\* what sets a duty or a target: the two loops, the commands on channels
\* and devices and the activation of a preset, built-in or imported
NextDuty ==
    \/ update_all
    \/ realtime_tick
    \/ update_wavemaker
    \/ set_mode_target
    \/ set_mode_return
    \/ emergency_stop
    \/ set_wavemaker_mode
    \/ set_wavemaker_manual_duty
    \/ stop_all
    \/ import_config_request
    \/ activate_preset_request

SpecDuty == Init /\ [][NextDuty]_vars

\* the ticks and what removes the entries they look up: the active preset,
\* a registered device, the wavemaker an LED follows
NextMissing ==
    \/ update_all
    \/ realtime_tick
    \/ import_config_request
    \/ delete_preset
    \/ activate_preset_request
    \/ delete_device
    \/ Advance

SpecMissing == Init /\ [][NextMissing]_vars

\* the allocator over the longer run, with the settings updates
NextShed ==
    \/ sample_job_read_long
    \/ shed_leds
    \/ restore_leds
    \/ sample_job_publish
    \/ update_array_settings

SpecShed == Init /\ [][NextShed]_vars

\* the feed mode: its requests, its timeout and the activation of presets
NextFeed ==
    \/ start_feed_mode_request
    \/ stop_feed_mode
    \/ feed_mode_timeout_check
    \/ activate_preset_request

SpecFeed == Init /\ [][NextFeed]_vars

\* the timeout trigger fires every second for as long as the scheduler runs
SpecFeedFair == Init /\ [][NextFeed]_vars /\ WF_vars(feed_mode_timeout_check)

\* the scheduled tasks around midnight, with feed mode
NextAutomation ==
    \/ create_night_task
    \/ automation_task_check
    \/ check_and_execute_tasks
    \/ start_feed_mode
    \/ stop_feed_mode

SpecAutomation == Init /\ [][NextAutomation]_vars

NextInterpolate == interpolate_return

\* sample_job with a store that may fail, and the readers of the snapshot
NextSampleJob ==
    \/ sample_job_read
    \/ shed_leds
    \/ restore_leds
    \/ sample_job_publish
    \/ sample_job_persist_raises
    \/ snapshot

SpecSampleJob == Init /\ [][NextSampleJob]_vars

NextTriggers ==
    \/ trigger_fires
    \/ callback_returns
    \/ stop_hw_scheduler

SpecTriggers == Init /\ [][NextTriggers]_vars

SpecInterpolate == InitInterpolate /\ [][NextInterpolate]_vars

\* the pattern generators on their own
NextPattern ==
    \/ pattern_time_passes
    \/ pattern_value

\* the generators of InitPattern beside the program after startup
InitGenerators ==
    /\ InitAllocator /\ InitHardware /\ InitNoCall /\ InitTriggers
    /\ InitPattern /\ InitDevices /\ InitImport /\ InitTelemetry /\ InitStop
    /\ InitAutomation

SpecPattern == InitGenerators /\ [][NextPattern]_vars

----------------------------------------------------------------------------
(* Properties of the hardware control                                      *)

\* the duty PWMDevice.apply records on device for an intensity
DutyFor(device, intensity) == apply(device, intensity).current_duty

\* C7: when emergency stop returns, every managed device's last-applied duty
\* is 0 and every wavemaker channel's mode is OFF: after
\* WavemakerManager.emergency_stop every channel has mode "off" and recorded
\* duty 0, and after DeviceRegistry.stop_all every registered device has
\* recorded duty 0.
C7_EmergencyStopZeroesEveryDevice ==
    [][/\ emergency_stop =>
            \A c \in ChannelIds : /\ channels'[c].mode = "off"
                                  /\ channels'[c].current_duty = Zero
       /\ stop_all =>
            /\ \A d \in WmIds : wavemakers'[d].registered
                                   => wavemakers'[d].current_duty = Zero
            /\ \A l \in LedIds : leds'[l].registered
                                   => leds'[l].current_duty = Zero]_vars

\* C8: whenever a preset is active, every tick applies to each registered
\* wavemaker that is not manual the preset's interpolated power of its
\* channel divided by 100, also where that power is 0, and never the value of
\* the device's own pattern or mode: both for the real-time loop (devices
\* whose identifier names a channel 1..12) and for the wavemaker manager's
\* control loop (channels 0..5 carry wavemakers 1..6).
C8_ActivePresetOverridesPattern ==
    [][/\ (RealtimeTick(NoFailure) /\ HasActivePreset) =>
            \A d \in WmIds :
               (/\ wavemakers[d].registered
                /\ d \notin manual_devices
                /\ WmNumber(d) \in WavemakerNums)
               => wavemakers'[d].current_duty =
                     DutyFor(wavemakers[d],
                             RatMul(get_current_power_levels(now)[WmNumber(d)],
                                    Rat(1, 100)))
       /\ (UpdateAll(NoChannel) /\ HasActivePreset) =>
            \A c \in ChannelIds :
               channels'[c].current_duty =
                   RatMul(get_current_power_levels(now)[c + 1], Rat(1, 100))]_vars

\* C9: no tick changes the duty of a device that is in manual mode, whether
\* a preset is active, a pattern is registered or the LED follows a
\* wavemaker; while a device is manual its duty changes only in a step of an
\* explicit command (a manual-duty command to it, or the emergency stop);
\* and a manual-duty command to a device that is not in manual mode is
\* answered with an error status and leaves the duty of every device as it
\* was.
C9_ManualDutyOnlyByCommand ==
    [][/\ \A d \in WmIds \cap manual_devices :
             wavemakers'[d].current_duty # wavemakers[d].current_duty
             => /\ ~realtime_tick
                /\ \/ \E u \in ManualDutyInputs : WavemakerManualDuty(d, u)
                   \/ stop_all
       /\ \A l \in LedIds \cap manual_devices :
             leds'[l].current_duty # leds[l].current_duty
             => /\ ~realtime_tick
                /\ \/ \E u \in ManualDutyInputs : LedManualDuty(l, u)
                   \/ stop_all
       /\ \A d \in WmIds \ manual_devices : \A u \in ManualDutyInputs :
             WavemakerManualDuty(d, u)
             => /\ http_status' \in {400, 404}
                /\ wavemakers' = wavemakers /\ leds' = leds
       /\ \A l \in LedIds \ manual_devices : \A u \in ManualDutyInputs :
             LedManualDuty(l, u)
             => /\ http_status' \in {400, 404}
                /\ wavemakers' = wavemakers /\ leds' = leds]_vars

\* WM1 is manual and keeps the duty of its manual command (1/2 of the range
\* 0.05..1) through the tick that applied the active preset's 66.67 % to the
\* LED that follows it, and the latest manual-duty command, sent to the LED
\* that is not manual, was answered 400
C9_Witness ==
    /\ "WM1" \in manual_devices
    /\ "LED1" \notin manual_devices
    /\ wavemakers["WM1"].current_duty = Rat(21, 40)
    /\ HasActivePreset
    /\ led_follow_map["LED1"] = "WM1"
    /\ leds["LED1"].current_duty = Rat(2, 3)
    /\ http_status = 400

\* C10: when no preset is active, every tick applies to each registered
\* wavemaker that is not manual and has a pattern the value of that pattern,
\* whatever the identifier of the device.  (The tick that follows a switch
\* from manual to automatic is a tick in which the device is not manual.)
C10_PatternAppliedWhateverTheId ==
    [][(RealtimeTick(NoFailure) /\ active_preset_id = NoPreset) =>
          \A d \in WmIds :
             (/\ wavemakers[d].registered
              /\ d \notin manual_devices
              /\ patterns[d].present)
             => wavemakers'[d].current_duty =
                   DutyFor(wavemakers[d], value(patterns[d], now))]_vars

----------------------------------------------------------------------------
(* Properties of sample_job and of the published snapshot, over            *)
(* SpecSampleJob                                                           *)

InSeq(x, seq) == \E i \in DOMAIN seq : seq[i] = x

\* C11: within one firing of sample_job the telemetry of all stages is read
\* into a snapshot first, the allocator runs then and its decisions are on
\* the LEDs of the stages, and the snapshot is published as latest last: the
\* step that starts the firing builds the snapshot of that firing and does
\* not publish it, the two passes of the allocator run with that snapshot
\* built and not published, and a step that changes latest is the last step
\* of the firing, publishes exactly that snapshot, and leaves every LED the
\* firing shed off and every LED it restored on.
C11_ReadThenAllocateThenPublish ==
    [][/\ (pc = "idle" /\ pc' # "idle") =>
            /\ snap' = Snapshot(now')
            /\ latest' = latest
       /\ (pc \in {"shed", "restore"} /\ pc' # pc) =>
            /\ snap = Snapshot(now)
            /\ snap' = snap
            /\ latest' = latest
            /\ latest # snap
       /\ latest' # latest =>
            /\ pc = "publish" /\ pc' = "idle"
            /\ snap = Snapshot(now)
            /\ latest' = snap
            /\ \A k \in KeySet :
                  /\ InSeq(k, leds_to_restore) => is_on'[k]
                  /\ (InSeq(k, leds_to_shed) /\ ~InSeq(k, leds_to_restore))
                        => ~is_on'[k]]_vars

\* the snapshot of the second firing is published and has been read, and an
\* LED that this firing shed is off
C11_Witness ==
    /\ pc = "idle"
    /\ now = 2 * interval_s
    /\ latest = Snapshot(now)
    /\ snapshot_response = latest
    /\ \E k \in KeySet : ~is_on[k] /\ last_shed_time[k] = now

\* rows is one row per stage, in the order of the stages, all of one firing
WholeSnapshot(rows) ==
    /\ Len(rows) = Len(StageOrder)
    /\ \A i \in DOMAIN rows : rows[i].stage_id = StageOrder[i]
    /\ \A i, j \in DOMAIN rows : rows[i].ts = rows[j].ts

\* C12: the latest snapshot is replaced as a whole: at every moment latest
\* is the complete snapshot of one firing (or of the startup), and so is
\* every response a reader got, whatever the firing is doing while the reader
\* reads; never a mixture of the rows of two firings.
C12_LatestIsAlwaysOneWholeSnapshot ==
    /\ WholeSnapshot(latest)
    /\ snapshot_response # NoSnap => WholeSnapshot(snapshot_response)

\* a reader holds the snapshot of the first firing while the second firing,
\* whose snapshot is built but not published, is between its two passes
C12_Witness ==
    /\ pc = "restore"
    /\ now = 2 * interval_s
    /\ snap = Snapshot(now)
    /\ latest = Snapshot(interval_s)
    /\ snapshot_response = Snapshot(interval_s)

\* C15: a failure to persist the snapshot does not abort the firing: every
\* last step of a firing, whether the store failed or not, publishes the
\* snapshot of the firing as latest and leaves the decisions of the
\* allocator on the LEDs.
C15_PersistFailureStillPublishes ==
    [][(pc = "publish" /\ pc' = "idle") =>
          /\ latest' = snap
          /\ is_on' = is_on
          /\ current_intensity_pct' = current_intensity_pct]_vars

----------------------------------------------------------------------------
(* Properties of the triggers, over SpecTriggers                           *)

\* C13: for each trigger at most one invocation of its callback is in
\* progress at any time; a callback starts only in the step of a firing of
\* its trigger and only when none is in progress, and a firing that finds
\* one in progress starts nothing, then or later (nothing is queued);
\* callbacks of different triggers may be in progress together.
C13_NoTriggerOverlapsItself ==
    [][/\ \A t \in TriggerIds : instances[t] <= 1 /\ instances'[t] <= 1
       /\ \A t \in TriggerIds :
            instances'[t] > instances[t] =>
               /\ instances[t] = 0
               /\ last_firing' = [trigger |-> t, outcome |-> "started"]
               /\ \A u \in TriggerIds \ {t} : instances'[u] = instances[u]
       /\ last_firing'.outcome = "skipped" /\ last_firing' # last_firing =>
            /\ instances[last_firing'.trigger] = 1
            /\ instances' = instances]_vars

\* sample_job and the control loop of the wavemakers are in progress
\* together, and the latest firing of sample_job found it in progress and
\* was skipped
C13_Witness ==
    /\ instances["sample_job"] = 1
    /\ instances["wavemaker_control_loop"] = 1
    /\ last_firing = [trigger |-> "sample_job", outcome |-> "skipped"]

\* C14: every scheduler that owns triggers can be stopped, and once the stop
\* operations of the program have returned no trigger starts a new
\* invocation of its callback.
C14_NoInvocationStartsAfterStop ==
    [][stop_returned =>
          \A t \in TriggerIds : instances'[t] <= instances[t]]_vars

----------------------------------------------------------------------------
(* Properties of the ticks under PWM failures and concurrent commands      *)

\* the channels as the control loop sees them before it computes the duties
ChannelsSeen ==
    IF HasActivePreset
    THEN apply_preset_power_levels(channels, get_current_power_levels(now))
    ELSE channels

\* C16: a PWM call that fails for one device during a tick does not keep the
\* tick from updating the other devices, and the error does not leave the
\* tick: in the real-time loop every other wavemaker and LED gets the state
\* the tick gives it when no call fails, in the wavemaker control loop every
\* other channel gets its duty computed and written and the run of the job
\* ends without an exception.
C16_FailureOfOneDeviceLeavesTheOthersUpdated ==
    [][/\ \A failing \in PwmFailInputs \ {NoFailure} :
            RealtimeTick(failing) =>
               \E levels \in {get_current_power_levels(now)} :
                  /\ \A d \in WmIds \ {failing} :
                        wavemakers'[d] = TickWavemakers(levels, now)[d]
                  /\ \A l \in LedIds \ {failing} :
                        leds'[l] = TickLeds(levels, now)[l]
       /\ \A failing \in ChannelFailInputs \ {NoChannel} :
            UpdateAll(failing) =>
               /\ \A c \in ChannelIds \ {failing} :
                     /\ channels'[c] = update_pwm(ChannelsSeen[c], now)
                     /\ pca_duty'[c] = set_channel_pwm(channels'[c].current_duty)
               /\ ~job_error']_vars

\* C17: when the PWM call for a device fails, the recorded duty of that
\* device is the one it had before the call, for a device of the registry
\* (PWMDevice.apply) and for a channel of the wavemaker manager
\* (Channel.update_pwm) alike.
C17_FailedCallKeepsTheRecordedDuty ==
    [][/\ \A failing \in PwmFailInputs \ {NoFailure} :
            RealtimeTick(failing) =>
               /\ failing \in WmIds =>
                     wavemakers'[failing].current_duty = wavemakers[failing].current_duty
               /\ failing \in LedIds =>
                     leds'[failing].current_duty = leds[failing].current_duty
       /\ \A failing \in ChannelFailInputs \ {NoChannel} :
            UpdateAll(failing) =>
               channels'[failing].current_duty = channels[failing].current_duty]_vars

\* the command in progress has given channel c a mode and target that are
\* neither those it had before the command nor those the command sets
HalfUpdated(c) ==
    /\ set_mode_call # NoCall
    /\ set_mode_call.channel_id = c
    /\ LET current == [mode |-> channels[c].mode,
                       target_power_pct |-> channels[c].target_power_pct]
       IN /\ current # set_mode_call.before
          /\ current # [mode |-> set_mode_call.mode,
                        target_power_pct |-> Clamp100(set_mode_call.target_pct)]

\* C18: however a command and a tick interleave, no run of the control loop
\* computes the duty of a channel from a state in which only some of the
\* fields that one command writes have been written.  (Runs in which the
\* active preset overwrites the mode and target first, and runs in which a
\* PWM write fails, are left aside.)
C18_TickNeverSeesHalfUpdatedChannel ==
    [][(UpdateAll(NoChannel) /\ ~HasActivePreset) =>
          \A c \in ChannelIds : ~HalfUpdated(c)]_vars

----------------------------------------------------------------------------
(* Properties of _interpolate_power, over SpecInterpolate                  *)

Before(curve, i, j) ==
    \/ curve[i].time < curve[j].time
    \/ curve[i].time = curve[j].time /\ i < j
FirstByTime(curve) ==
    CHOOSE i \in DOMAIN curve : \A j \in DOMAIN curve \ {i} : Before(curve, i, j)
LastByTime(curve) ==
    CHOOSE i \in DOMAIN curve : \A j \in DOMAIN curve \ {i} : Before(curve, j, i)
Consecutive(curve, i, j) ==
    /\ Before(curve, i, j)
    /\ ~ \E k \in DOMAIN curve : Before(curve, i, k) /\ Before(curve, k, j)
\* p1 + (p2 - p1) * (t - t1) / (t2 - t1), p1 when t2 = t1
Linear(k1, k2, t) ==
    IF k2.time = k1.time THEN Rat(k1.power, 1)
    ELSE RatAdd(Rat(k1.power, 1),
                RatMul(Rat(k2.power - k1.power, k2.time - k1.time),
                       RatSub(t, Rat(k1.time, 1))))
NonDecreasing(curve) ==
    \A i, j \in DOMAIN curve :
        Before(curve, i, j) => curve[i].power <= curve[j].power
NonIncreasing(curve) ==
    \A i, j \in DOMAIN curve :
        Before(curve, i, j) => curve[i].power >= curve[j].power

C20_InterpolationIsTheReference ==
    interp_pc = "done" =>
        LET c == curve_arg
            t == time_pos_arg
            r == power_result
        IN /\ c = <<>> => r = Zero
           /\ c # <<>> =>
                LET first == c[FirstByTime(c)]
                    last == c[LastByTime(c)]
                IN IF RatLe(t, Rat(first.time, 1)) THEN r = Rat(first.power, 1)
                   ELSE IF RatLe(Rat(last.time, 1), t) THEN r = Rat(last.power, 1)
                   ELSE \E i, j \in DOMAIN c :
                          /\ Consecutive(c, i, j)
                          /\ RatLe(Rat(c[i].time, 1), t)
                          /\ RatLe(t, Rat(c[j].time, 1))
                          /\ r = Linear(c[i], c[j], t)
                          /\ RatLe(RatMin(Rat(c[i].power, 1), Rat(c[j].power, 1)), r)
                          /\ RatLe(r, RatMax(Rat(c[i].power, 1), Rat(c[j].power, 1)))
           /\ \A t2 \in TimePosInputs :
                RatLe(t, t2) =>
                    /\ NonDecreasing(c) => RatLe(r, interpolate_power(c, t2))
                    /\ NonIncreasing(c) => RatLe(interpolate_power(c, t2), r)
           /\ (c = PulseCurve(1) /\ t = Rat(10, 1)) => r = Rat(50, 1)

\* a curve given latest keyframe first, interpolated a quarter of the way
\* from its keyframe of time 0 to its keyframe of time 100
C20_Witness ==
    /\ interp_pc = "done"
    /\ curve_arg = <<Keyframe(100, 100), Keyframe(0, 0)>>
    /\ time_pos_arg = Rat(25, 1)
    /\ power_result = Rat(25, 1)

----------------------------------------------------------------------------
(* Properties of the presets                                               *)

\* the levels of preset at position 0 of its cycle
PhaseZeroLevels(preset) ==
    [i \in WavemakerNums |->
       IF i \in DOMAIN preset.flow_curves
       THEN interpolate_power(preset.flow_curves[i], Zero)
       ELSE Zero]

\* C21: when the active preset has a cycle duration of zero the levels are
\* those of position 0 of the cycle and nothing is raised: a run of the
\* wavemaker control loop in which no PWM write fails ends without an
\* exception and gives every channel the duty of the level of position 0,
\* and a real-time tick in which no PWM call fails gives every device the
\* state it gets with these levels.
C21_ZeroCycleIsPhaseZero ==
    [][(/\ HasActivePreset
        /\ get_preset(active_preset_id).cycle_duration_sec = 0) =>
          \E levels \in {PhaseZeroLevels(get_preset(active_preset_id))} :
            /\ UpdateAll(NoChannel) =>
                 /\ ~job_error'
                 /\ \A c \in ChannelIds :
                       channels'[c] =
                         update_pwm(apply_preset_power_levels(channels, levels)[c],
                                    now)
            /\ RealtimeTick(NoFailure) =>
                 /\ wavemakers' = TickWavemakers(levels, now)
                 /\ leds' = TickLeds(levels, now)]_vars

\* C22: whatever preset requests are made, every built-in preset is in the
\* table with the name, description, cycle duration and flow curves it was
\* created with; an update or a delete of a built-in preset is answered 404
\* and leaves the table as it was, while an update of a user preset stores
\* every field the request gives and a delete of a user preset removes its
\* row, the other rows staying as they were.
C22_BuiltInPresetsAreImmutable ==
    /\ [](\A id \in DOMAIN StorePresets :
             HasPreset(id) /\ get_preset(id) = StorePresets[id])
    /\ [][\A preset_id \in PresetRequestIds :
            /\ \A data \in PresetRequestInputs :
                 UpdatePreset(preset_id, data) =>
                   IF ~HasPreset(preset_id) THEN presets' = presets
                   ELSE IF get_preset(preset_id).is_built_in
                   THEN presets' = presets /\ http_status' = 404
                   ELSE /\ http_status' = 200
                        /\ DOMAIN presets' = DOMAIN presets
                        /\ \A k \in DOMAIN presets \ {preset_id} :
                              presets'[k] = presets[k]
                        /\ "name" \in data.given =>
                              presets'[preset_id].name = data.name
                        /\ "cycle_duration_sec" \in data.given =>
                              presets'[preset_id].cycle_duration_sec
                                  = data.cycle_duration_sec
                        /\ "flow_curves" \in data.given =>
                              presets'[preset_id].flow_curves = data.flow_curves
            /\ DeletePreset(preset_id) =>
                   IF ~HasPreset(preset_id) THEN presets' = presets
                   ELSE IF get_preset(preset_id).is_built_in
                   THEN presets' = presets /\ http_status' = 404
                   ELSE /\ http_status' = 200
                        /\ DOMAIN presets' = DOMAIN presets \ {preset_id}
                        /\ \A k \in DOMAIN presets' :
                              presets'[k] = presets[k]]_vars

\* a user preset has been updated (only an update stores a cycle of zero) and
\* a later request for a built-in or unknown preset has been rejected
C22_Witness ==
    /\ http_status = 404
    /\ \E id \in DOMAIN presets :
          /\ ~presets[id].is_built_in
          /\ presets[id].cycle_duration_sec = 0

\* C23: the active preset is the one active_preset_id points to, and an
\* unknown id never becomes it: activating an id the table does not have is
\* answered 404 and leaves active_preset_id and cycle_start_time as they
\* were; activating an id the table has is answered 200, makes it the active
\* preset and sets cycle_start_time to the time of the activation, so that
\* the preset is at position 0 of its cycle, whether or not it was the active
\* preset before.
C23_ActivationSetsPointerAndRestartsCycle ==
    /\ [](active_preset_id \in {NoPreset} \cup (PresetRequestIds \ {UnknownPresetId}))
    /\ [][\A preset_id \in PresetRequestIds :
             ActivatePreset(preset_id) =>
               IF ~HasPreset(preset_id)
               THEN /\ http_status' = 404
                    /\ active_preset_id' = active_preset_id
                    /\ cycle_start_time' = cycle_start_time
               ELSE /\ http_status' = 200
                    /\ active_preset_id' = preset_id
                    /\ cycle_start_time' = now
                    /\ now' - cycle_start_time' = 0]_vars

\* the Pulse preset is active and its cycle began now, after the control
\* loop had applied the level the Pulse preset has ClockStep seconds into
\* its cycle: it was activated, ran, and has been activated again
C23_Witness ==
    /\ http_status = 200
    /\ active_preset_id = PulseId
    /\ cycle_start_time = now
    /\ now > 0
    /\ channels[0].mode = "constant"
    /\ channels[0].target_power_pct =
          IntPart(interpolate_power(PulseCurve(1),
                     Rat(ClockStep * 100,
                         StorePresets[PulseId].cycle_duration_sec)))

----------------------------------------------------------------------------
(* Properties of the pattern generators                                    *)

\* C24: the value a PULSE generator returned for the elapsed time t is its
\* max_intensity when the period is not positive or (t mod period)/period is
\* below on_ratio, and its min_intensity otherwise; with period 10, on_ratio
\* 0.5 and the range [0,1] it is 1 when t mod 10 < 5 and 0 otherwise.
C24_PulseIsOnBelowOnRatio ==
    \A g \in GeneratorIds :
       LET pattern == generators[g]
           t == pattern_result[g].t - pattern.start_time
           v == pattern_result[g].v
       IN (pattern.mode = "PULSE" /\ pattern_result[g] # NoValue) =>
            /\ v = IF \/ pattern.period_s <= 0
                      \/ (t % pattern.period_s) * pattern.on_ratio.d
                            < pattern.on_ratio.n * pattern.period_s
                   THEN pattern.max_intensity
                   ELSE pattern.min_intensity
            /\ (/\ pattern.period_s = 10
                /\ pattern.on_ratio = Rat(1, 2)
                /\ pattern.min_intensity = Zero
                /\ pattern.max_intensity = One) =>
                  v = IF t % 10 < 5 THEN One ELSE Zero

\* a PULSE generator of period 10, on_ratio 0.5 and range [0,1] has returned
\* 0 in the second half of a period
C24_Witness ==
    \E g \in GeneratorIds :
       /\ generators[g].mode = "PULSE"
       /\ generators[g].period_s = 10
       /\ generators[g].on_ratio = Rat(1, 2)
       /\ generators[g].min_intensity = Zero
       /\ generators[g].max_intensity = One
       /\ pattern_result[g] # NoValue
       /\ pattern_result[g].t % 10 >= 5
       /\ pattern_result[g].v = Zero

C26_RandomIsReproducible ==
    LET a == generators["A"]
        b == generators["B"]
    IN (/\ a.mode = "RANDOM" /\ b.mode = "RANDOM"
        /\ a.period_s = b.period_s /\ a.on_ratio = b.on_ratio
        /\ a.phase_deg = b.phase_deg
        /\ a.min_intensity = b.min_intensity
        /\ a.max_intensity = b.max_intensity
        /\ a.start_time = b.start_time
        /\ pattern_result["A"] # NoValue
        /\ pattern_result["A"].t = pattern_result["B"].t) =>
          pattern_result["A"].v = pattern_result["B"].v

\* C27: a pattern request for a wavemaker that already has a pattern leaves
\* the generator with the time of the request as its time origin, so that
\* its value at that time is the value a generator newly created with the
\* configuration has at its start.
C27_ReplacingTheConfigurationRestartsTheGenerator ==
    [][\A device_id \in WmIds : \A pattern_config \in PatternReplaceInputs :
          (/\ UpdateWavemakerPattern(device_id, pattern_config)
           /\ wavemakers[device_id].registered
           /\ patterns[device_id].present) =>
             /\ patterns'[device_id].start_time = now
             /\ value(patterns'[device_id], now)
                   = value(Pattern(pattern_config, now), now)]_vars

----------------------------------------------------------------------------
(* Properties of the device registry *)

\* C28: a settings update whose body has min_intensity >= max_intensity is
\* answered with 400 and changes nothing of the device: neither the
\* configuration in the registry (frequency, intensity range, voltage
\* range), nor the handle, nor the stored row; this for
\* POST /hardware/wavemakers/{id}/settings and for
\* PUT /api/settings/hardware/{id}
C28_InvalidRangeIsRejectedWithoutEffect ==
    [][\A device_id \in DeviceIdInputs, settings \in SettingsInputs :
         InvalidRange(settings) =>
           /\ ( /\ device_id \in DOMAIN registry.wavemakers
                /\ UpdateWavemakerSettings(device_id, settings) )
              => ( /\ http_status' = 400
                   /\ registry' = registry
                   /\ hw_handles' = hw_handles
                   /\ device_rows' = device_rows )
           /\ ( /\ device_id \in DOMAIN device_rows
                /\ UpdateDevice(device_id, settings) )
              => ( /\ http_status' = 400
                   /\ registry' = registry
                   /\ hw_handles' = hw_handles
                   /\ device_rows' = device_rows )]_vars

\* the calls stop and cleanup on the old handle come, in this order, before
\* the creation of the new one in the log of calls
ReleasedBefore(log, old_hw, new_hw) ==
    \E i, j, k \in DOMAIN log :
        /\ i < j /\ j < k
        /\ log[i] = HwCall("stop", old_hw)
        /\ log[j] = HwCall("cleanup", old_hw)
        /\ log[k] = HwCall("init", new_hw)

\* C29: a hot reload of a registered device (the update of its pin, which
\* calls DeviceRegistry.reload_device) leaves the ids of both maps of the
\* registry and every other device as they were; the id is served by one
\* device, on a new handle, with the new configuration; the old handle is
\* stopped and released, and that before the new handle was created; the
\* manual-mode flags, the patterns and the LED-follow mapping are unchanged
C29_ReloadKeepsTheIdentityOfTheDevice ==
    [][\A device_id \in DeviceIdInputs, updates \in SettingsInputs :
         LET device_type == device_rows[device_id].device_type
             old_map == DeviceMap(registry, device_type)
             new_map == DeviceMap(registry', device_type)
             old == old_map[device_id]
             new == new_map[device_id]
         IN  ( /\ "gpio_pin" \in updates.given
               /\ device_id \in DOMAIN device_rows
               /\ device_id \in DOMAIN old_map
               /\ UpdateDevice(device_id, updates)
               /\ http_status' = 200 )
             => /\ DOMAIN registry'.wavemakers = DOMAIN registry.wavemakers
                /\ DOMAIN registry'.leds = DOMAIN registry.leds
                /\ \A other \in DOMAIN registry.wavemakers :
                       \/ other = device_id /\ device_type = "WAVEMAKER"
                       \/ registry'.wavemakers[other]
                              = registry.wavemakers[other]
                /\ \A other \in DOMAIN registry.leds :
                       \/ other = device_id /\ device_type = "LED"
                       \/ registry'.leds[other] = registry.leds[other]
                /\ new.config = device_rows'[device_id].config
                /\ new.config.gpio_pin = updates.gpio_pin
                /\ new.hw # old.hw
                /\ new.hw \notin DOMAIN hw_handles
                /\ hw_handles'[new.hw]
                       = PigpioPWM(updates.gpio_pin, new.config.pwm_freq_hz)
                /\ ~hw_handles'[old.hw].running
                /\ hw_handles'[old.hw].released
                /\ ReleasedBefore(hw_log', old.hw, new.hw)
                /\ manual_devices' = manual_devices
                /\ patterns' = patterns
                /\ led_follow_map' = led_follow_map]_vars

\* WM1, in manual mode, followed by LED1 and with its pattern, has been
\* reloaded on pin 21: the handle it had before is released
C29_Witness ==
    /\ "WM1" \in DOMAIN device_rows
    /\ registry.wavemakers["WM1"].config.gpio_pin = 21
    /\ \E old_hw \in DOMAIN hw_handles :
           /\ hw_handles[old_hw].released
           /\ ReleasedBefore(hw_log, old_hw, registry.wavemakers["WM1"].hw)
    /\ "WM1" \in manual_devices
    /\ led_follow_map["LED1"] = "WM1"
    /\ patterns["WM1"].present

----------------------------------------------------------------------------
(* Properties of the export and import of the configuration *)

\* the intensity range of every device of a map of the registry
Ranges(map) ==
    [d \in DOMAIN map |-> <<map[d].config.min_intensity,
                            map[d].config.max_intensity>>]

\* C30: the import of an export taken from the present configuration
\* leaves an equivalent configuration: the same devices, stored and
\* registered, with the same intensity ranges; the same preset ids with the
\* same flow curves and the same task ids with the same preset_id, so no
\* preset and no task a second time
C30_ImportOfTheExportReproducesTheState ==
    [][\A update_raises \in BOOLEAN :
         ( /\ export_data
                = ExportData(device_rows, presets, scheduled_tasks)
           /\ ImportConfig(export_data, update_raises) )
         => /\ DOMAIN device_rows' = DOMAIN device_rows
            /\ \A d \in DOMAIN device_rows :
                   /\ device_rows'[d].config.min_intensity
                          = device_rows[d].config.min_intensity
                   /\ device_rows'[d].config.max_intensity
                          = device_rows[d].config.max_intensity
            /\ Ranges(registry'.wavemakers) = Ranges(registry.wavemakers)
            /\ Ranges(registry'.leds) = Ranges(registry.leds)
            /\ DOMAIN presets' = DOMAIN presets
            /\ \A id \in DOMAIN presets :
                   presets'[id].flow_curves = presets[id].flow_curves
            /\ DOMAIN scheduled_tasks' = DOMAIN scheduled_tasks
            /\ \A id \in DOMAIN scheduled_tasks :
                   scheduled_tasks'[id].preset_id
                       = scheduled_tasks[id].preset_id]_vars

----------------------------------------------------------------------------
(* Properties of the telemetry of the wavemaker manager *)

\* the points of a history are at least 0.5 s apart, the oldest first, and
\* there are no more of them than the deque holds
HistorySpaced(points) ==
    /\ Len(points) <= HistoryMaxlen
    /\ \A i \in 1..(Len(points) - 1) :
           points[i + 1].t - points[i].t >= telemetry_min_interval

\* C31: however often sample_all_power is called, a call records a sample
\* only 0.5 s or more after the sample before; a recorded sample appends
\* one point, taken at that time, to the history of every channel; a
\* history never holds more than its bound, the oldest point leaving first;
\* so the points of a history are at least 0.5 s apart
C31_TelemetryIsThrottledAndBounded ==
    [][( last_telemetry_time' # last_telemetry_time \/ history' # history )
       => /\ telemetry_time - last_telemetry_time >= telemetry_min_interval
          /\ last_telemetry_time' = telemetry_time
          /\ \A c \in ChannelIds :
                LET old == history[c]
                    new == history'[c]
                IN  /\ Len(new) = IF Len(old) < HistoryMaxlen
                                  THEN Len(old) + 1 ELSE HistoryMaxlen
                    /\ new[Len(new)].t = telemetry_time
                    /\ \A i \in 1..(Len(new) - 1) :
                           new[i] = old[i + Len(old) + 1 - Len(new)]
                    /\ HistorySpaced(new)]_vars

\* the histories are full, their first point has left, and a call made now
\* is one too early
C31_Witness ==
    /\ \A c \in ChannelIds :
           /\ Len(history[c]) = HistoryMaxlen
           /\ history[c][1].t > telemetry_min_interval + 1
    /\ telemetry_time - last_telemetry_time = 1

----------------------------------------------------------------------------
(* Properties of the duties and targets *)

InUnitInterval(r) == RatLe(Zero, r) /\ RatLe(r, One)

\* every duty is in [0, 1] and every target in [0, 100]
DutiesAndTargetsInRange ==
    /\ \A d \in WmIds : InUnitInterval(wavemakers[d].current_duty)
    /\ \A l \in LedIds : InUnitInterval(leds[l].current_duty)
    /\ \A c \in ChannelIds :
           /\ InUnitInterval(channels[c].current_duty)
           /\ channels[c].target_power_pct \in 0..100

\* C32: whatever the loops, the commands and the presets applied, the
\* last duty of every PWM device and of every channel is in [0, 1] and the
\* target of every channel is in [0, 100]; and right after
\* PWMDevice.apply(x), here that of the manual-duty command, the duty of
\* the device is min_intensity + clamp(x, 0, 1) * (max_intensity -
\* min_intensity)
C32_DutiesAndTargetsStayInRange ==
    [][/\ DutiesAndTargetsInRange'
       /\ \A d \in WmIds, x \in ManualDutyInputs :
            ( /\ wavemakers[d].registered
              /\ d \in manual_devices
              /\ WavemakerManualDuty(d, x) )
            => wavemakers'[d].current_duty
                 = RatAdd(wavemakers[d].min_intensity,
                          RatMul(RatMax(Zero, RatMin(One, x)),
                                 RatSub(wavemakers[d].max_intensity,
                                        wavemakers[d].min_intensity)))]_vars

----------------------------------------------------------------------------
(* Properties of the surplus timers under settings updates *)

\* the keys of PowerAllocator.surplus_start_time
TimerKeys(timers) == {k \in KeySet : timers[k] # NoTime}

\* C33: after every allocator tick, whatever settings updates switched
\* loads on or off between the ticks, every key of the surplus-observed
\* timer map is a load that is off; a restore pass under sufficient
\* surplus sets the timer of an off load of an enabled array without one and does not
\* restore it in that pass, removes the timer of a load it restores, and a
\* pass without sufficient surplus removes every timer
C33_TimersOnlyForLoadsThatAreOff ==
    [][RestoreStep =>
         /\ \A k \in TimerKeys(surplus_start_time') : ~is_on'[k]
         /\ \A k \in EnabledKeys :
              ( /\ ~PassSurplusLow
                /\ ~is_on[k]
                /\ surplus_start_time[k] = NoTime )
              => /\ surplus_start_time'[k] = now
                 /\ ~is_on'[k]
         /\ \A k \in SeqToSet(leds_to_restore') : surplus_start_time'[k] = NoTime
         /\ PassSurplusLow => TimerKeys(surplus_start_time') = {}]_vars

----------------------------------------------------------------------------
(* Properties of the ticks when an entry they look up is gone *)

\* the entry of a device in the registry
DeviceOf(d) == IF d \in WmIds THEN wavemakers[d] ELSE leds[d]

\* the preset manager names a preset the store no longer has
ActivePresetMissing ==
    active_preset_id # NoPreset /\ ~HasPreset(active_preset_id)
\* the wavemaker an LED follows is not in the registry
FollowedMissing(l) ==
    /\ led_follow_map[l] # NoWavemaker
    /\ ~wavemakers[led_follow_map[l]].registered

\* C34: a tick does not fail because an entry is gone. With the active
\* preset deleted the levels are all 0, update_all completes and applies no
\* preset, and realtime_tick falls back to the pattern of each automatic
\* wavemaker; a device that is not registered is left alone by both ticks,
\* and an LED whose wavemaker was removed still ends the tick with a duty
\* of its range
C34_TicksSkipWhatIsMissing ==
    [][/\ ActivePresetMissing =>
            /\ get_current_power_levels(now) = ZeroLevels
            /\ UpdateAll(NoChannel) =>
                 /\ ~job_error'
                 /\ \A c \in ChannelIds :
                      /\ channels'[c].mode = channels[c].mode
                      /\ channels'[c].target_power_pct = channels[c].target_power_pct
            /\ RealtimeTick(NoFailure) =>
                 \A d \in WmIds :
                   ( /\ wavemakers[d].registered
                     /\ d \notin manual_devices
                     /\ WmNumber(d) # ValueError
                     /\ patterns[d].present )
                   => wavemakers'[d] = apply(wavemakers[d], value(patterns[d], now))
       /\ (RealtimeTick(NoFailure) \/ UpdateAll(NoChannel)) =>
            /\ \A d \in WmIds : ~wavemakers[d].registered => wavemakers'[d] = NoDevice
            /\ \A l \in LedIds : ~leds[l].registered => leds'[l] = NoDevice
            /\ \A l \in LedIds :
                 FollowedMissing(l) /\ leds[l].registered =>
                   /\ leds'[l].registered
                   /\ InUnitInterval(leds'[l].current_duty)
       /\ ( /\ UpdateAll(NoChannel)
            /\ \/ ActivePresetMissing
               \/ \E d \in WmIds \cup LedIds : d \in DeleteIds /\ ~DeviceOf(d).registered )
          => ~job_error']_vars

\* the active preset was deleted and so was the wavemaker the LED follows,
\* and the LED has been driven
C34_Witness ==
    /\ ActivePresetMissing
    /\ ~wavemakers["WM1"].registered
    /\ FollowedMissing("LED1")
    /\ leds["LED1"].registered
    /\ leds["LED1"].current_duty # Zero
    /\ ~job_error

----------------------------------------------------------------------------
(* Properties of shedding against restoring *)

----------------------------------------------------------------------------
(* Properties of the emergency stops *)

\* C36: from an emergency stop until the next control command, whatever
\* the ticks do and whether or not a preset or a pattern is active, every
\* channel stays off with no output and no duty higher than before, and
\* every device of the registry stays at duty 0
C36_StoppedUntilCommanded ==
    [][/\ ("channels" \in stopped /\ "channels" \in stopped') =>
            \A c \in ChannelIds :
              /\ channels'[c].mode = "off"
              /\ pca_duty'[c] = Zero
              /\ RatLe(channels'[c].current_duty, channels[c].current_duty)
       /\ ("devices" \in stopped /\ "devices" \in stopped') =>
            /\ \A d \in WmIds : wavemakers'[d].current_duty = Zero
            /\ \A l \in LedIds : leds'[l].current_duty = Zero]_vars

----------------------------------------------------------------------------
(* Properties of the feed mode *)

\* C37: when feed mode ends, by POST /feed/stop or by the timeout, the
\* active preset is the one that was active when feed mode started, and no
\* preset is active if none was then; a start while feed mode is active is
\* rejected and leaves the saved previous preset as it is
C37_FeedModeIsARoundTrip ==
    [][/\ (feed_mode_active /\ ~feed_mode_active') =>
            get_active_preset' = feed_started_with
       /\ (feed_mode_active /\ StartFeedMode) =>
            /\ feed_result' = "Feed mode already active"
            /\ http_status' = 400
            /\ feed_mode_active'
            /\ preset_before_feed' = preset_before_feed
            /\ UNCHANGED presetVars]_vars

\* the length of feed mode in seconds
FeedSeconds == feed_mode_duration_minutes * SecondsPerMinute

\* C38: feed mode always ends. At every firing of the timeout trigger feed
\* mode stays active if less than feed_mode_duration_minutes have passed
\* since it started and becomes inactive otherwise, so it ends at the first
\* firing at or after that duration and never earlier by the timeout; and
\* with the trigger firing every second, feed mode that is active becomes
\* inactive
C38_FeedModeAlwaysEnds ==
    /\ [][(auto_now' = auto_now + 1 /\ feed_mode_active) =>
            /\ feed_mode_start_time # NoTime
            /\ feed_mode_active' = (auto_now' - feed_mode_start_time < FeedSeconds)]_vars
    /\ (feed_mode_active ~> ~feed_mode_active)

\* feed mode is one second short of its duration
C38_Witness ==
    /\ feed_mode_active
    /\ auto_now - feed_mode_start_time = FeedSeconds - 1

----------------------------------------------------------------------------
(* Properties of the scheduled tasks *)

\* the one occurrence of a task in the run that is explored: its time on
\* the day that begins at the midnight of the run, if the task is enabled
\* and its days admit that day
Occurrence(task) == task_datetime(SecondsPerDay, task.time)
HasOccurrence(task) ==
    /\ task.enabled
    /\ \/ task.days_of_week = NoTaskDays
       \/ weekday(SecondsPerDay) \in json_loads(task.days_of_week)
\* the times at which task id was executed
ExecutionsOf(executions, id) ==
    IF id \in DOMAIN executions THEN executions[id] ELSE <<>>

\* C39: with the task check firing every 60 seconds and feed mode never
\* started, a task is executed exactly once for its occurrence: never
\* twice, never without an occurrence, and once the last check that falls
\* in the window of 30 seconds around the occurrence has run (the check
\* whose successor falls after the window) it has been executed; and the
\* check does not change the active preset while feed mode is active
C39_TasksRunOncePerOccurrence ==
    [][/\ \A id \in DOMAIN scheduled_tasks' :
            LET task == scheduled_tasks'[id]
                done == ExecutionsOf(task_executions', id)
            IN  /\ Len(done) <= 1
                /\ ~HasOccurrence(task) => done = <<>>
                /\ ( /\ HasOccurrence(task)
                     /\ feed_result' = "none"
                     /\ automation_started'
                     /\ task_check_pc' = "idle"
                     /\ auto_now' + check_interval_s > Occurrence(task) + window_s )
                   => Len(done) = 1
       /\ (feed_mode_active /\ task_check_pc = "tasks" /\ task_check_pc' = "idle")
            => active_preset_id' = active_preset_id]_vars

=============================================================================
